---------------------------- MODULE Spec2Model ----------------------------
(***************************************************************************)
(* Model of the asset generators of douglastkaiser/stones:                 *)
(*   tool/generate_assets.py  (PNG encoder, placeholder WAV writer)        *)
(*   tool/generate_sounds.py  (sound synthesis, WAV writer)                *)
(* Byte strings are sequences of integers in 0..255.  32-bit quantities    *)
(* that may exceed 2^31-1 (CRC-32, Adler-32) are kept as 4-byte big-endian *)
(* tuples.                                                                 *)
(***************************************************************************)
EXTENDS Integers, Sequences, FiniteSets, TLC

VARIABLES
    pc,           \* position in the program being run
    width,        \* save_png: width argument
    height,       \* save_png: height argument
    pixels,       \* save_png: pixels argument, a flat list of [r, g, b, a]
    raw_data,     \* save_png: local raw_data
    compressed,   \* save_png: local compressed
    png_data,     \* save_png: local png_data
    file,         \* content of the destination path (NoFile before open)
    probe,        \* a chunk of the written file with one payload byte changed
    data,         \* save_wav: data argument, the samples
    sample_rate,  \* save_wav: sample_rate argument
    wav,          \* save_wav / create_silent_wav: local wav
    wav_file,     \* content of the path save_wav writes
    duration_ms,  \* create_silent_wav: duration_ms argument
    num_samples,  \* create_silent_wav: local num_samples
    silent_file,  \* content of the path create_silent_wav writes
    effect,       \* generate_sounds.main: which generate_*_sound runs (1..4)
    duration,     \* generate_*_sound: local duration, in milliseconds
    samples,      \* generate_*_sound: local samples
    i,            \* generate_*_sound: loop variable i (the next value)
    data_len,     \* generate_*_sound: len(data) of the local list data
    amp,          \* the enveloped mix of the last sample, in thousandths
    sample,       \* generate_*_sound: the value last appended to data
    sounding,     \* generate_win_sound: the idx that added to sample_val
    args,         \* is_inside_rounded_rect: the arguments of one call
    inside,       \* is_inside_rounded_rect: the value returned
    img_size,     \* draw_stone: img_size argument
    stone,        \* draw_stone: cx, cy, stone_size, color, standing
    before,       \* draw_stone: the pixels list as it was on entry
    touched,      \* draw_stone: the (px, py) whose pixels[idx] was accessed
    stones,       \* generate_app_icon: the stones of the list still to draw
    pending,      \* draw_stone: the iterations of the running pass still to
                  \* be executed, when they are executed in any order
    fs,           \* the content of every output path of the two tools
    finished,     \* the generations that have written their output
    placeholder   \* create_placeholder_sounds: how many of sounds are done

pngVars == <<width, height, pixels, raw_data, compressed, png_data, file>>

wavVars == <<data, sample_rate, wav, wav_file, duration_ms, num_samples,
             silent_file>>

synthVars == <<effect, duration, samples, i, data_len, amp, sample,
               sounding>>

geomVars == <<args, inside>>

drawVars == <<img_size, stone, before, touched, stones>>

batchVars == <<fs, finished, placeholder>>

vars == <<pc, pngVars, probe, wavVars, synthVars, geomVars, drawVars,
          pending, batchVars>>

(***************************************************************************)
(* Bounds of the model.                                                    *)
(***************************************************************************)
MaxPixels == 4        \* arbitrary canvases have width*height <= MaxPixels
UniformDim == 8       \* uniform canvases are UniformDim x UniformDim
MaxCrcPixels == 1     \* canvases whose chunks are corrupted byte by byte
MaxSamples == 8       \* save_wav is given at most MaxSamples samples
MaxDurationMs == 1    \* create_silent_wav is given at most MaxDurationMs ms

Byte == 0..255

\* the content of a path at which there is no file
NoFile == <<-1>>

\* RGBA values the canvases are filled from: transparent, the icon
\* background, the fresh shadow, white.
Colours == { <<0, 0, 0, 0>>, <<121, 85, 72, 255>>,
             <<40, 30, 25, 180>>, <<255, 255, 255, 255>> }

(***************************************************************************)
(* Bit operations on bytes and on 4-byte words.                            *)
(***************************************************************************)
RECURSIVE XorBits(_, _, _)
XorBits(a, b, n) ==
    IF n = 0 THEN 0
    ELSE ((a + b) % 2) + 2 * XorBits(a \div 2, b \div 2, n - 1)

Xor4 == [a \in 0..15 |-> [b \in 0..15 |-> XorBits(a, b, 4)]]

Xor8(a, b) == 16 * Xor4[a \div 16][b \div 16] + Xor4[a % 16][b % 16]

Xor32(u, v) == <<Xor8(u[1], v[1]), Xor8(u[2], v[2]),
                 Xor8(u[3], v[3]), Xor8(u[4], v[4])>>

\* logical shift right by one bit of a 4-byte big-endian word
Shr1(u) == << u[1] \div 2,
              (u[2] \div 2) + 128 * (u[1] % 2),
              (u[3] \div 2) + 128 * (u[2] % 2),
              (u[4] \div 2) + 128 * (u[3] % 2) >>

(***************************************************************************)
(* struct.pack                                                             *)
(***************************************************************************)
\* struct.pack(">I", n)
PackBE32(n) == << (n \div 16777216) % 256, (n \div 65536) % 256,
                  (n \div 256) % 256, n % 256 >>

\* struct.pack("<I", n)
PackLE32(n) == << n % 256, (n \div 256) % 256,
                  (n \div 65536) % 256, (n \div 16777216) % 256 >>

\* struct.pack("<H", n)
PackLE16(n) == << n % 256, (n \div 256) % 256 >>

(***************************************************************************)
(* zlib.crc32: reflected CRC-32, polynomial 0xEDB88320, table driven.      *)
(***************************************************************************)
CrcPoly == <<237, 184, 131, 32>>
AllOnes == <<255, 255, 255, 255>>

RECURSIVE CrcTableEntry(_, _)
CrcTableEntry(c, k) ==
    IF k = 0 THEN c
    ELSE CrcTableEntry(IF c[4] % 2 = 1 THEN Xor32(CrcPoly, Shr1(c))
                                       ELSE Shr1(c), k - 1)

CrcTable == [n \in Byte |-> CrcTableEntry(<<0, 0, 0, n>>, 8)]

\* one byte of the table-driven update: table[(c ^ b) & 0xFF] ^ (c >> 8)
CrcStep(c, b) == Xor32(CrcTable[Xor8(c[4], b)], <<0, c[1], c[2], c[3]>>)

\* the update folded over bytes[lo..hi], left to right; the range is halved
\* and the left half's value inspected only to keep the evaluation shallow
RECURSIVE CrcUpdate(_, _, _, _)
CrcUpdate(c, bytes, lo, hi) ==
    IF lo > hi THEN c
    ELSE IF lo = hi THEN CrcStep(c, bytes[lo])
    ELSE LET mid == (lo + hi) \div 2
             left == CrcUpdate(c, bytes, lo, mid)
         IN  IF left[4] \in Byte THEN CrcUpdate(left, bytes, mid + 1, hi)
                                 ELSE left

\* zlib.crc32(bytes) & 0xFFFFFFFF, as the 4 bytes struct.pack(">I", .) gives
crc32(bytes) == Xor32(CrcUpdate(AllOnes, bytes, 1, Len(bytes)), AllOnes)

(***************************************************************************)
(* zlib.compress: an RFC 1950 stream (header 78 DA, DEFLATE data,          *)
(* big-endian Adler-32 of the uncompressed bytes).  The DEFLATE data is    *)
(* one final stored block (RFC 1951, 3.2.4): LEN, NLEN = ~LEN, the bytes.  *)
(***************************************************************************)
AdlerBase == 65521

\* s = <<a, b>>: a += byte, b += a, both modulo 65521
AdlerStep(s, byte) ==
    << (s[1] + byte) % AdlerBase, (s[2] + ((s[1] + byte) % AdlerBase)) % AdlerBase >>

RECURSIVE AdlerUpdate(_, _, _, _)
AdlerUpdate(s, bytes, lo, hi) ==
    IF lo > hi THEN s
    ELSE IF lo = hi THEN AdlerStep(s, bytes[lo])
    ELSE LET mid == (lo + hi) \div 2
             left == AdlerUpdate(s, bytes, lo, mid)
         IN  IF left[1] < AdlerBase THEN AdlerUpdate(left, bytes, mid + 1, hi)
                                    ELSE left

\* zlib.adler32(bytes), as 4 big-endian bytes: (b << 16) | a
adler32(bytes) ==
    LET s == AdlerUpdate(<<1, 0>>, bytes, 1, Len(bytes))
    IN  <<s[2] \div 256, s[2] % 256, s[1] \div 256, s[1] % 256>>

compress(bytes) ==
    <<120, 218>> \o <<1>> \o PackLE16(Len(bytes))
                 \o PackLE16(65535 - Len(bytes)) \o bytes \o adler32(bytes)

(***************************************************************************)
(* generate_assets.py: write_chunk and the pieces of save_png.             *)
(***************************************************************************)
PngSignature == <<137, 80, 78, 71, 13, 10, 26, 10>>
TypeIHDR == <<73, 72, 68, 82>>
TypeIDAT == <<73, 68, 65, 84>>
TypeIEND == <<73, 69, 78, 68>>

\* write_chunk with the CRC taken over length + type + payload
write_chunk_CrcOverLength(output, chunk_type, chunk_data) ==
    output \o PackBE32(Len(chunk_data)) \o chunk_type \o chunk_data
           \o crc32(PackBE32(Len(chunk_data)) \o chunk_type \o chunk_data)

\* write_chunk with the CRC taken over the payload alone
write_chunk_CrcOverData(output, chunk_type, chunk_data) ==
    output \o PackBE32(Len(chunk_data)) \o chunk_type \o chunk_data
           \o crc32(chunk_data)

\* write_chunk(output, chunk_type, data): the value of output afterwards
\* (the data parameter is chunk_data here)
write_chunk(output, chunk_type, chunk_data) ==
    output \o PackBE32(Len(chunk_data)) \o chunk_type \o chunk_data
           \o crc32(chunk_type \o chunk_data)

\* one scanline of the raw stream: the filter byte, then the row's pixels
RECURSIVE RawRow(_, _, _, _)
RawRow(px, w, y, x) ==
    IF x >= w THEN <<>>
    ELSE px[y * w + x + 1] \o RawRow(px, w, y, x + 1)

\* the rows written bottom row first
RECURSIVE RawRows_BottomUp(_, _, _, _)
RawRows_BottomUp(px, w, h, y) ==
    IF y >= h THEN <<>>
    ELSE <<0>> \o RawRow(px, w, h - 1 - y, 0)
               \o RawRows_BottomUp(px, w, h, y + 1)

RECURSIVE RawRows(_, _, _, _)
RawRows(px, w, h, y) ==
    IF y >= h THEN <<>>
    ELSE <<0>> \o RawRow(px, w, y, 0) \o RawRows(px, w, h, y + 1)

\* the loop of save_png that fills raw_data
BuildRaw(px, w, h) == RawRows(px, w, h, 0)

\* the IHDR payload with height written before width
BuildIhdr_Swapped(w, h) == PackBE32(h) \o PackBE32(w) \o <<8, 6, 0, 0, 0>>

\* the IHDR payload declaring colour type 2 (truecolour without alpha)
BuildIhdr_NoAlpha(w, h) == PackBE32(w) \o PackBE32(h) \o <<8, 2, 0, 0, 0>>

\* the IHDR payload built by save_png
BuildIhdr(w, h) == PackBE32(w) \o PackBE32(h) \o <<8, 6, 0, 0, 0>>

(***************************************************************************)
(* save_png, statement by statement.                                       *)
(***************************************************************************)
\* no sound is being synthesized
\* no call of is_inside_rounded_rect, no call of draw_stone
NoArgs == [px |-> 0, py |-> 0, cx |-> 0, cy |-> 0, width |-> 0, height |-> 0,
           radius |-> 0]

NoStone == [cx |-> 0, cy |-> 0, stone_size |-> 0, color |-> <<0, 0, 0>>,
            standing |-> FALSE]

GeomIdle ==
    /\ args = NoArgs
    /\ inside = FALSE

\* no pass of draw_stone is being executed out of order
PassIdle == pending = {}

\* the batch of all generations is not running
BatchIdle ==
    /\ fs = <<>>
    /\ finished = {}
    /\ placeholder = 0

DrawIdle ==
    /\ img_size = 0
    /\ stone = NoStone
    /\ before = <<>>
    /\ touched = {}
    /\ stones = <<>>

SynthIdle ==
    /\ effect = 0
    /\ duration = 0
    /\ samples = 0
    /\ i = 0
    /\ data_len = 0
    /\ amp = 0
    /\ sample = 0
    /\ sounding = {}

\* the WAV writers are not running
WavIdle ==
    /\ data = <<>>
    /\ sample_rate = 0
    /\ wav = <<>>
    /\ wav_file = NoFile
    /\ duration_ms = 0
    /\ num_samples = 0
    /\ silent_file = NoFile

\* what the chunk reader reports for bytes that are no chunk
BadChunk == [type |-> <<>>, data |-> <<>>, crc |-> <<>>]

Dims == { d \in (1..MaxPixels) \X (1..MaxPixels) : d[1] * d[2] <= MaxPixels }

InitPng ==
    /\ pc = "raw"
    /\ \/ \E d \in Dims :
            /\ width = d[1]
            /\ height = d[2]
            /\ pixels \in [1..(d[1] * d[2]) -> Colours]
       \/ \E c \in Colours :
            /\ width = UniformDim
            /\ height = UniformDim
            /\ pixels = [k \in 1..(UniformDim * UniformDim) |-> c]
    /\ raw_data = <<>>
    /\ compressed = <<>>
    /\ png_data = <<>>
    /\ file = NoFile
    /\ probe = BadChunk
    /\ PassIdle
    /\ BatchIdle
    /\ GeomIdle
    /\ DrawIdle
    /\ WavIdle
    /\ SynthIdle

SavePngRaw ==
    /\ pc = "raw"
    /\ raw_data' = BuildRaw(pixels, width, height)
    /\ pc' = "compress"
    /\ UNCHANGED <<width, height, pixels, compressed, png_data, file, probe,
                   wavVars, synthVars, geomVars, drawVars, batchVars,
                   pending>>

SavePngCompress ==
    /\ pc = "compress"
    /\ compressed' = compress(raw_data)
    /\ pc' = "signature"
    /\ UNCHANGED <<width, height, pixels, raw_data, png_data, file, probe,
                   wavVars, synthVars, geomVars, drawVars, batchVars,
                   pending>>

SavePngSignature ==
    /\ pc = "signature"
    /\ png_data' = png_data \o PngSignature
    /\ pc' = "ihdr"
    /\ UNCHANGED <<width, height, pixels, raw_data, compressed, file, probe,
                   wavVars, synthVars, geomVars, drawVars, batchVars,
                   pending>>

SavePngIhdr ==
    /\ pc = "ihdr"
    /\ png_data' = write_chunk(png_data, TypeIHDR, BuildIhdr(width, height))
    /\ pc' = "idat"
    /\ UNCHANGED <<width, height, pixels, raw_data, compressed, file, probe,
                   wavVars, synthVars, geomVars, drawVars, batchVars,
                   pending>>

\* the compressed stream split over two IDAT chunks
SavePngIdat_Split ==
    /\ pc = "idat"
    /\ png_data' =
         write_chunk(write_chunk(png_data, TypeIDAT, SubSeq(compressed, 1, 1)),
                     TypeIDAT, SubSeq(compressed, 2, Len(compressed)))
    /\ pc' = "iend"
    /\ UNCHANGED <<width, height, pixels, raw_data, compressed, file, probe,
                   wavVars, synthVars, geomVars, drawVars, batchVars,
                   pending>>

SavePngIdat ==
    /\ pc = "idat"
    /\ png_data' = write_chunk(png_data, TypeIDAT, compressed)
    /\ pc' = "iend"
    /\ UNCHANGED <<width, height, pixels, raw_data, compressed, file, probe,
                   wavVars, synthVars, geomVars, drawVars, batchVars,
                   pending>>

SavePngIend ==
    /\ pc = "iend"
    /\ png_data' = write_chunk(png_data, TypeIEND, <<>>)
    /\ pc' = "open"
    /\ UNCHANGED <<width, height, pixels, raw_data, compressed, file, probe,
                   wavVars, synthVars, geomVars, drawVars, batchVars,
                   pending>>

\* open(path, "wb") creates or truncates the destination
SavePngOpen ==
    /\ pc = "open"
    /\ file' = <<>>
    /\ pc' = "write"
    /\ UNCHANGED <<width, height, pixels, raw_data, compressed, png_data,
                   probe, wavVars, synthVars, geomVars, drawVars, batchVars,
                   pending>>

\* f.write(png_data) and the close at the end of the with block
SavePngWrite ==
    /\ pc = "write"
    /\ file' = file \o png_data
    /\ pc' = "saved"
    /\ UNCHANGED <<width, height, pixels, raw_data, compressed, png_data,
                   probe, wavVars, synthVars, geomVars, drawVars, batchVars,
                   pending>>

NextPng ==
    \/ SavePngRaw
    \/ SavePngCompress
    \/ SavePngSignature
    \/ SavePngIhdr
    \/ SavePngIdat
    \/ SavePngIend
    \/ SavePngOpen
    \/ SavePngWrite

SpecPng == InitPng /\ [][NextPng]_vars


(***************************************************************************)
(* generate_sounds.py: save_wav.                                           *)
(* generate_assets.py: create_silent_wav.                                  *)
(* The two functions carry their own copy of the header code; each copy    *)
(* is modelled from its own lines.                                         *)
(***************************************************************************)
TagRIFF == <<82, 73, 70, 70>>
TagWAVE == <<87, 65, 86, 69>>
TagFmt  == <<102, 109, 116, 32>>
TagData == <<100, 97, 116, 97>>

\* int(x) of the quotient num / den: truncation toward zero
IntTrunc(num, den) ==
    IF num >= 0 THEN num \div den ELSE -((-num) \div den)

\* struct.pack("<I", n) raises struct.error for n < 0 (and for n >= 2^32,
\* beyond the sizes of this model)
PackFails(n) == n < 0

\* bytes(list) raises ValueError unless every element is in range(256)
BytesFails(list) == \E k \in 1..Len(list) : list[k] \notin Byte

\* the RIFF size field holding the whole file length, 44 + data_size
save_wav_riff_WholeFile(data_size) ==
    TagRIFF \o PackLE32(44 + data_size) \o TagWAVE

\* save_wav: RIFF header, file_size = 36 + data_size
save_wav_riff(data_size) == TagRIFF \o PackLE32(36 + data_size) \o TagWAVE

\* save_wav: fmt chunk
save_wav_fmt(rate) ==
    TagFmt \o PackLE32(16) \o PackLE16(1) \o PackLE16(1)
           \o PackLE32(rate) \o PackLE32(rate) \o PackLE16(1) \o PackLE16(8)

\* the data chunk followed by the RIFF pad byte when its length is odd
save_wav_data_Padded(data_size, list) ==
    TagData \o PackLE32(data_size) \o list
            \o (IF data_size % 2 = 1 THEN <<0>> ELSE <<>>)

\* save_wav: data chunk
save_wav_data(data_size, list) == TagData \o PackLE32(data_size) \o list

\* create_silent_wav: num_samples
silent_num_samples(rate, ms) == IntTrunc(rate * ms, 1000)

\* create_silent_wav: RIFF header
silent_riff(data_size) == TagRIFF \o PackLE32(36 + data_size) \o TagWAVE

\* the fmt chunk declaring 16-bit samples
silent_fmt_16bit(rate) ==
    TagFmt \o PackLE32(16) \o PackLE16(1) \o PackLE16(1)
           \o PackLE32(rate) \o PackLE32(2 * rate) \o PackLE16(2) \o PackLE16(16)

\* create_silent_wav: fmt chunk
silent_fmt(rate) ==
    TagFmt \o PackLE32(16) \o PackLE16(1) \o PackLE16(1)
           \o PackLE32(rate) \o PackLE32(rate) \o PackLE16(1) \o PackLE16(8)

\* create_silent_wav: data chunk, bytes([128] * num_samples)
silent_data(data_size, n) ==
    TagData \o PackLE32(data_size) \o [k \in 1..n |-> 128]

SilentRate == 8000

\* sample values and rates the writers are exercised with
SampleValues == {0, 128, 255}
SampleRates == {8000, 22050, 96000}

\* sample lists of at most n elements
SampleSeqs(n) == UNION { [1..k -> SampleValues] : k \in 0..n }

\* lists bytes() rejects
BadSampleSeqs == { <<256>>, <<128, -1>> }

InitWav ==
    /\ pc = "wav_riff"
    /\ data \in SampleSeqs(MaxSamples) \cup BadSampleSeqs
    /\ sample_rate \in SampleRates
    /\ wav = <<>>
    /\ wav_file = NoFile
    /\ duration_ms = 0
    /\ num_samples = 0
    /\ silent_file = NoFile
    /\ width = 0
    /\ height = 0
    /\ pixels = <<>>
    /\ raw_data = <<>>
    /\ compressed = <<>>
    /\ png_data = <<>>
    /\ file = NoFile
    /\ probe = BadChunk
    /\ PassIdle
    /\ BatchIdle
    /\ GeomIdle
    /\ DrawIdle
    /\ SynthIdle

\* save_wav, lines 139-148
SaveWavRiff ==
    /\ pc = "wav_riff"
    /\ IF PackFails(36 + Len(data))
       THEN /\ pc' = "wav_error"
            /\ wav' = <<>>
       ELSE /\ pc' = "wav_fmt"
            /\ wav' = save_wav_riff(Len(data))
    /\ UNCHANGED <<data, sample_rate, wav_file, duration_ms, num_samples,
                   silent_file, pngVars, probe, synthVars, geomVars,
                   drawVars, batchVars, pending>>

\* save_wav, lines 150-158
SaveWavFmt ==
    /\ pc = "wav_fmt"
    /\ IF PackFails(sample_rate)
       THEN /\ pc' = "wav_error"
            /\ wav' = wav
       ELSE /\ pc' = "wav_data"
            /\ wav' = wav \o save_wav_fmt(sample_rate)
    /\ UNCHANGED <<data, sample_rate, wav_file, duration_ms, num_samples,
                   silent_file, pngVars, probe, synthVars, geomVars,
                   drawVars, batchVars, pending>>

\* save_wav, lines 160-163
SaveWavData ==
    /\ pc = "wav_data"
    /\ IF PackFails(Len(data)) \/ BytesFails(data)
       THEN /\ pc' = "wav_error"
            /\ wav' = wav
       ELSE /\ pc' = "wav_open"
            /\ wav' = wav \o save_wav_data(Len(data), data)
    /\ UNCHANGED <<data, sample_rate, wav_file, duration_ms, num_samples,
                   silent_file, pngVars, probe, synthVars, geomVars,
                   drawVars, batchVars, pending>>

\* save_wav, line 165
SaveWavOpen ==
    /\ pc = "wav_open"
    /\ wav_file' = <<>>
    /\ pc' = "wav_write"
    /\ UNCHANGED <<data, sample_rate, wav, duration_ms, num_samples,
                   silent_file, pngVars, probe, synthVars, geomVars,
                   drawVars, batchVars, pending>>

\* save_wav, line 166
SaveWavWrite ==
    /\ pc = "wav_write"
    /\ wav_file' = wav_file \o wav
    /\ pc' = "wav_saved"
    /\ UNCHANGED <<data, sample_rate, wav, duration_ms, num_samples,
                   silent_file, pngVars, probe, synthVars, geomVars,
                   drawVars, batchVars, pending>>

\* create_silent_wav is called, lines 262-268; -1 ms stands for the
\* negative durations
SilentStart ==
    /\ pc \in {"wav_saved", "wav_error"}
    /\ \E ms \in -1..MaxDurationMs :
         /\ duration_ms' = ms
         /\ num_samples' = silent_num_samples(SilentRate, ms)
    /\ wav' = <<>>
    /\ pc' = "silent_riff"
    /\ UNCHANGED <<data, sample_rate, wav_file, silent_file, pngVars, probe,
                   synthVars, geomVars, drawVars, batchVars, pending>>

\* create_silent_wav, lines 270-276
SilentRiff ==
    /\ pc = "silent_riff"
    /\ IF PackFails(36 + num_samples)
       THEN /\ pc' = "silent_error"
            /\ wav' = wav
       ELSE /\ pc' = "silent_fmt"
            /\ wav' = wav \o silent_riff(num_samples)
    /\ UNCHANGED <<data, sample_rate, wav_file, duration_ms, num_samples,
                   silent_file, pngVars, probe, synthVars, geomVars,
                   drawVars, batchVars, pending>>

\* create_silent_wav, lines 278-286
SilentFmt ==
    /\ pc = "silent_fmt"
    /\ wav' = wav \o silent_fmt(SilentRate)
    /\ pc' = "silent_data"
    /\ UNCHANGED <<data, sample_rate, wav_file, duration_ms, num_samples,
                   silent_file, pngVars, probe, synthVars, geomVars,
                   drawVars, batchVars, pending>>

\* create_silent_wav, lines 288-291
SilentData ==
    /\ pc = "silent_data"
    /\ IF PackFails(num_samples)
       THEN /\ pc' = "silent_error"
            /\ wav' = wav
       ELSE /\ pc' = "silent_open"
            /\ wav' = wav \o silent_data(num_samples, num_samples)
    /\ UNCHANGED <<data, sample_rate, wav_file, duration_ms, num_samples,
                   silent_file, pngVars, probe, synthVars, geomVars,
                   drawVars, batchVars, pending>>

\* create_silent_wav, line 293
SilentOpen ==
    /\ pc = "silent_open"
    /\ silent_file' = <<>>
    /\ pc' = "silent_write"
    /\ UNCHANGED <<data, sample_rate, wav, wav_file, duration_ms,
                   num_samples, pngVars, probe, synthVars, geomVars,
                   drawVars, batchVars, pending>>

\* create_silent_wav, line 294
SilentWrite ==
    /\ pc = "silent_write"
    /\ silent_file' = silent_file \o wav
    /\ pc' = "silent_saved"
    /\ UNCHANGED <<data, sample_rate, wav, wav_file, duration_ms,
                   num_samples, pngVars, probe, synthVars, geomVars,
                   drawVars, batchVars, pending>>

NextWav ==
    \/ SaveWavRiff
    \/ SaveWavFmt
    \/ SaveWavData
    \/ SaveWavOpen
    \/ SaveWavWrite
    \/ SilentStart
    \/ SilentRiff
    \/ SilentFmt
    \/ SilentData
    \/ SilentOpen
    \/ SilentWrite

SpecWav == InitWav /\ [][NextWav]_vars

(***************************************************************************)
(* generate_sounds.py: main and the four generate_*_sound functions.       *)
(* The functions share their shape: sample_rate and duration are set,      *)
(* samples = int(sample_rate * duration), a loop over range(samples)       *)
(* appends one quantized sample per iteration, and save_wav is called.     *)
(* duration is kept in milliseconds (0.15 s is 150); sample_rate *         *)
(* duration is exact in floating point for the four pairs of the program.  *)
(* The list data is represented by its length and its last element.  The   *)
(* enveloped oscillator mix of a sample is a real number the model does    *)
(* not compute: any value of AmpMilli, in thousandths, stands for it.      *)
(***************************************************************************)
EffectName == <<"place", "slide", "flatten", "win">>
EffectRate == <<22050, 22050, 22050, 22050>>
EffectDurationMs == <<150, 250, 200, 1000>>

AmpMilli == {-2000, -1000, -500, 0, 500, 1000, 2000}

\* generate_win_sound: notes, in hundredths of a hertz, and note_gap, in
\* milliseconds
notes == <<52325, 65925, 78399, 104650>>
note_gap == 150

\* the test excludes the sample at the very start of the note
note_started_Strict(idx, n, rate) == n * 1000 > idx * note_gap * rate

\* if t >= note_start, for t = n / sample_rate and note_start = idx * note_gap
note_started(idx, n, rate) == n * 1000 >= idx * note_gap * rate

\* the idx of enumerate(notes) whose block adds to sample_val at sample n
active_notes(n, rate) ==
    { idx \in 0..(Len(notes) - 1) : note_started(idx, n, rate) }

\* samples = int(sample_rate * duration)
sample_count(rate, ms) == IntTrunc(rate * ms, 1000)

\* sample = int(v * 127 + 128), then max(0, min(255, sample))
quantize(v) ==
    LET s == IntTrunc(v * 127 + 128000, 1000)
    IN  IF s < 0 THEN 0 ELSE IF s > 255 THEN 255 ELSE s

InitSynth ==
    /\ pc = "synth_start"
    /\ effect = 1
    /\ duration = 0
    /\ samples = 0
    /\ i = 0
    /\ data_len = 0
    /\ amp = 0
    /\ sample = 0
    /\ sounding = {}
    /\ data = <<>>
    /\ sample_rate = 0
    /\ wav = <<>>
    /\ wav_file = NoFile
    /\ duration_ms = 0
    /\ num_samples = 0
    /\ silent_file = NoFile
    /\ width = 0
    /\ height = 0
    /\ pixels = <<>>
    /\ raw_data = <<>>
    /\ compressed = <<>>
    /\ png_data = <<>>
    /\ file = NoFile
    /\ probe = BadChunk
    /\ PassIdle
    /\ BatchIdle
    /\ GeomIdle
    /\ DrawIdle

\* generate_*_sound up to the loop: sample_rate, duration, samples, data = []
SynthStart ==
    /\ pc = "synth_start"
    /\ sample_rate' = EffectRate[effect]
    /\ duration' = EffectDurationMs[effect]
    /\ samples' = sample_count(EffectRate[effect], EffectDurationMs[effect])
    /\ i' = 0
    /\ data_len' = 0
    /\ sounding' = {}
    /\ pc' = "synth_loop"
    /\ UNCHANGED <<effect, amp, sample, data, wav, wav_file, duration_ms,
                   num_samples, silent_file, pngVars, probe, geomVars,
                   drawVars, batchVars, pending>>

\* one iteration of the loop over range(samples)
SynthSample ==
    /\ pc = "synth_loop"
    /\ i < samples
    /\ \E v \in AmpMilli :
         /\ amp' = v
         /\ sample' = quantize(v)
    /\ sounding' = IF EffectName[effect] = "win"
                   THEN active_notes(i, sample_rate) ELSE {}
    /\ data_len' = data_len + 1
    /\ i' = i + 1
    /\ UNCHANGED <<pc, effect, duration, samples, wavVars, pngVars, probe,
                   geomVars, drawVars, batchVars, pending>>

\* range(samples) is exhausted: save_wav(path, data, sample_rate) is called
SynthSave ==
    /\ pc = "synth_loop"
    /\ i >= samples
    /\ pc' = "synth_save"
    /\ UNCHANGED <<synthVars, wavVars, pngVars, probe, geomVars, drawVars,
                   batchVars, pending>>

\* main goes on to the next generate_*_sound, or ends
SynthNext ==
    /\ pc = "synth_save"
    /\ IF effect < Len(EffectName)
       THEN /\ effect' = effect + 1
            /\ pc' = "synth_start"
       ELSE /\ effect' = effect
            /\ pc' = "synth_done"
    /\ UNCHANGED <<duration, samples, i, data_len, amp, sample, sounding,
                   wavVars, pngVars, probe, geomVars, drawVars, batchVars,
                   pending>>

\* save_wav raises OSError from open() or write(): main has no handler
\* around its calls, so the exception leaves main and the generate_*_sound
\* calls that follow never run
SynthSaveFails ==
    /\ pc = "synth_save"
    /\ pc' = "synth_aborted"
    /\ UNCHANGED <<synthVars, wavVars, pngVars, probe, geomVars, drawVars,
                   batchVars, pending>>

NextSynth ==
    \/ SynthStart
    \/ SynthSample
    \/ SynthSave
    \/ SynthSaveFails
    \/ SynthNext

SpecSynth == InitSynth /\ [][NextSynth]_vars

(***************************************************************************)
(* A PNG reader, used to state the properties of the encoder: chunk        *)
(* parsing, CRC validation, inflate of a stored-block zlib stream, and     *)
(* removal of the per-row filter byte.                                     *)
(***************************************************************************)
DecBE32(b) == ((b[1] * 256 + b[2]) * 256 + b[3]) * 256 + b[4]

\* the chunks of bytes[pos..]: a chunk that does not fit is reported as
\* BadChunk and ends the list
RECURSIVE ParseChunks(_, _)
ParseChunks(bytes, pos) ==
    IF pos > Len(bytes) THEN <<>>
    ELSE IF pos + 11 > Len(bytes) \/ bytes[pos] >= 128 THEN <<BadChunk>>
    ELSE LET n == DecBE32(SubSeq(bytes, pos, pos + 3))
         IN  IF pos + 11 + n > Len(bytes) THEN <<BadChunk>>
             ELSE << [type |-> SubSeq(bytes, pos + 4, pos + 7),
                      data |-> SubSeq(bytes, pos + 8, pos + 7 + n),
                      crc  |-> SubSeq(bytes, pos + 8 + n, pos + 11 + n)] >>
                  \o ParseChunks(bytes, pos + 12 + n)

\* the chunks that follow the 8-byte signature
Chunks(bytes) == ParseChunks(bytes, 9)

\* a chunk passes validation when its CRC is that of type + payload
ChunkValid(ch) == ch.crc = crc32(ch.type \o ch.data)

\* CRC-32 by bitwise polynomial division, one bit at a time, with no table
RECURSIVE CrcBits(_, _)
CrcBits(c, k) ==
    IF k = 0 THEN c
    ELSE CrcBits(IF c[4] % 2 = 1 THEN Xor32(CrcPoly, Shr1(c)) ELSE Shr1(c),
                 k - 1)

RECURSIVE CrcBitwiseFrom(_, _, _, _)
CrcBitwiseFrom(c, bytes, lo, hi) ==
    IF lo > hi THEN c
    ELSE IF lo = hi
         THEN CrcBits(<<c[1], c[2], c[3], Xor8(c[4], bytes[lo])>>, 8)
    ELSE LET mid == (lo + hi) \div 2
             left == CrcBitwiseFrom(c, bytes, lo, mid)
         IN  IF left[4] \in Byte THEN CrcBitwiseFrom(left, bytes, mid + 1, hi)
                                 ELSE left

CrcBitwise(bytes) ==
    Xor32(CrcBitwiseFrom(AllOnes, bytes, 1, Len(bytes)), AllOnes)

InflateError == <<-1>>

\* the bytes held by a zlib stream made of one final stored block
Inflate(z) ==
    IF Len(z) < 11 THEN InflateError
    ELSE IF z[1] % 16 # 8 \/ (z[1] * 256 + z[2]) % 31 # 0 \/ (z[2] \div 32) % 2 # 0
         THEN InflateError
    ELSE IF z[3] # 1 THEN InflateError
    ELSE LET n == z[4] + 256 * z[5]
         IN  IF z[6] + 256 * z[7] # 65535 - n \/ Len(z) # 11 + n
             THEN InflateError
             ELSE IF adler32(SubSeq(z, 8, 7 + n)) # SubSeq(z, 8 + n, 11 + n)
                  THEN InflateError
                  ELSE SubSeq(z, 8, 7 + n)

DecodeError == [width |-> -1, height |-> -1, pixels |-> <<>>]

\* the image a reader gets from a PNG byte stream of this subset
Decode(bytes) ==
    LET chs == Chunks(bytes) IN
    IF Len(bytes) < 8 \/ SubSeq(bytes, 1, 8) # PngSignature \/ Len(chs) # 3
    THEN DecodeError
    ELSE IF chs[1].type # TypeIHDR \/ Len(chs[1].data) # 13
            \/ chs[2].type # TypeIDAT \/ chs[3].type # TypeIEND
            \/ \E k \in 1..3 : ~ChunkValid(chs[k])
    THEN DecodeError
    ELSE LET w == DecBE32(SubSeq(chs[1].data, 1, 4))
             h == DecBE32(SubSeq(chs[1].data, 5, 8))
             raw == Inflate(chs[2].data)
             stride == 1 + 4 * w
         IN  IF SubSeq(chs[1].data, 9, 13) # <<8, 6, 0, 0, 0>>
                \/ raw = InflateError \/ Len(raw) # h * stride
                \/ \E y \in 0..(h - 1) : raw[y * stride + 1] # 0
             THEN DecodeError
             ELSE [width |-> w, height |-> h,
                   pixels |-> [k \in 1..(w * h) |->
                       LET y == (k - 1) \div w
                           x == (k - 1) % w
                           at == y * stride + 1 + 4 * x
                       IN  SubSeq(raw, at + 1, at + 4)]]

(***************************************************************************)
(* C1.  PNG round trip: decoding the bytes save_png wrote (IHDR, inflate   *)
(* of IDAT, filter bytes stripped) gives back the width, the height and    *)
(* every channel of every pixel of the canvas; an 8x8 uniform opaque       *)
(* canvas decodes to 8x8 pixels of that colour with alpha 255.             *)
(***************************************************************************)
C1_RoundTrip ==
    pc = "saved" =>
        LET img == Decode(file)
        IN  /\ img.width = width
            /\ img.height = height
            /\ Len(img.pixels) = width * height
            /\ \A k \in 1..(width * height) :
                 \A ch \in 1..4 : img.pixels[k][ch] = pixels[k][ch]

C1_Witness ==
    /\ pc = "saved"
    /\ width = 2
    /\ height = 2
    /\ pixels[2] # pixels[3]
    /\ pixels[1] # pixels[4]
    /\ Decode(file).pixels = pixels

(***************************************************************************)
(* C2.  The bytes save_png produces are the 8-byte signature followed by   *)
(* exactly three chunks, IHDR then IDAT then IEND, the IEND payload empty, *)
(* and nothing after IEND.                                                 *)
(***************************************************************************)
C2_ChunkOrder ==
    pc = "saved" =>
        /\ Len(file) >= 8
        /\ SubSeq(file, 1, 8) = PngSignature
        /\ Len(Chunks(file)) = 3
        /\ Chunks(file)[1].type = TypeIHDR
        /\ Chunks(file)[2].type = TypeIDAT
        /\ Chunks(file)[3].type = TypeIEND
        /\ Chunks(file)[3].data = <<>>

C2_Witness ==
    /\ pc = "saved"
    /\ Len(Chunks(file)) = 3
    /\ Len(Chunks(file)[2].data) > 0
    /\ width * height > 1

(***************************************************************************)
(* C3.  Each write_chunk call appends to the output exactly the 4-byte     *)
(* big-endian payload length, the 4-byte type, the payload, and the 4-byte *)
(* big-endian CRC-32 of type + payload (the length field not covered), and *)
(* leaves the bytes already in the output as they were.                    *)
(***************************************************************************)
ChunkType == [ihdr |-> TypeIHDR, idat |-> TypeIDAT, iend |-> TypeIEND]

ChunkPayload ==
    [ihdr |-> PackBE32(width) \o PackBE32(height) \o <<8, 6, 0, 0, 0>>,
     idat |-> compressed,
     iend |-> <<>>]

\* what one step of save_png that calls write_chunk does to png_data
WriteChunkEffect ==
    pc \in {"ihdr", "idat", "iend"} =>
        LET old == png_data
            new == png_data'
            n == Len(ChunkPayload[pc])
        IN  /\ Len(new) = Len(old) + 12 + n
            /\ SubSeq(new, 1, Len(old)) = old
            /\ DecBE32(SubSeq(new, Len(old) + 1, Len(old) + 4)) = n
            /\ SubSeq(new, Len(old) + 5, Len(old) + 8) = ChunkType[pc]
            /\ SubSeq(new, Len(old) + 9, Len(old) + 8 + n) = ChunkPayload[pc]
            /\ SubSeq(new, Len(old) + 9 + n, Len(old) + 12 + n)
                 = CrcBitwise(ChunkType[pc] \o ChunkPayload[pc])
            /\ SubSeq(new, Len(old) + 9 + n, Len(old) + 12 + n)
                 # CrcBitwise(SubSeq(new, Len(old) + 1, Len(old) + 8 + n))

\* C3: every write_chunk step appends length, type, payload and the CRC-32
\* of type + payload to the output and changes no earlier byte
C3_WriteChunk == [][WriteChunkEffect]_vars

C3_Witness ==
    /\ pc = "iend"
    /\ Len(png_data) = 8 + 25 + 12 + Len(compressed)
    /\ Len(compressed) > 0

(***************************************************************************)
(* Corruption of one payload byte of one chunk of the written file: the    *)
(* test the CRC is there to pass.  Every chunk, every payload position     *)
(* and every other byte value is tried.                                    *)
(***************************************************************************)
Corrupt ==
    /\ pc = "saved"
    /\ LET chs == Chunks(file)
       IN  \E k \in 1..Len(chs) :
             \E p \in 1..Len(chs[k].data) :
               \E v \in Byte \ {chs[k].data[p]} :
                 probe' = [chs[k] EXCEPT !.data[p] = v]
    /\ pc' = "corrupted"
    /\ UNCHANGED <<pngVars, wavVars, synthVars, geomVars, drawVars,
                   batchVars, pending>>

InitCrc == InitPng /\ width * height <= MaxCrcPixels

SpecCrc == InitCrc /\ [][NextPng \/ Corrupt]_vars

(***************************************************************************)
(* C4.  Every chunk of an emitted PNG passes CRC validation against        *)
(* type + payload, and a chunk with any single payload byte changed to a   *)
(* different value fails it.                                               *)
(***************************************************************************)
C4_CrcDetects ==
    /\ pc = "saved" =>
         /\ Len(Chunks(file)) > 0
         /\ \A k \in 1..Len(Chunks(file)) : ChunkValid(Chunks(file)[k])
    /\ pc = "corrupted" => ~ChunkValid(probe)

C4_Witness ==
    /\ pc = "corrupted"
    /\ probe.type = TypeIDAT
    /\ probe.data[Len(probe.data)] # Chunks(file)[2].data[Len(probe.data)]
    /\ ~ChunkValid(probe)

(***************************************************************************)
(* C5.  The IHDR payload is 13 bytes: width and height as big-endian       *)
(* unsigned 32-bit integers, then bit depth 8, colour type 6, compression  *)
(* 0, filter 0, interlace 0.                                               *)
(***************************************************************************)
C5_Ihdr ==
    pc = "saved" =>
        LET ihdr == Chunks(file)[1].data
        IN  /\ Chunks(file)[1].type = TypeIHDR
            /\ Len(ihdr) = 13
            /\ DecBE32(SubSeq(ihdr, 1, 4)) = width
            /\ DecBE32(SubSeq(ihdr, 5, 8)) = height
            /\ ihdr[9] = 8
            /\ ihdr[10] = 6
            /\ ihdr[11] = 0
            /\ ihdr[12] = 0
            /\ ihdr[13] = 0

C5_Witness ==
    /\ pc = "saved"
    /\ width # height
    /\ Len(Chunks(file)[1].data) = 13

(***************************************************************************)
(* C6.  The raw stream has length height * (1 + 4 * width): row y, top to  *)
(* bottom, is a filter byte 0 followed by the R, G, B, A bytes of pixels   *)
(* (0, y) .. (width - 1, y), left to right, from buffer index              *)
(* y * width + x.                                                          *)
(***************************************************************************)
C6_RawStream ==
    pc # "raw" =>
        /\ Len(raw_data) = height * (1 + 4 * width)
        /\ \A y \in 0..(height - 1) :
             /\ raw_data[y * (1 + 4 * width) + 1] = 0
             /\ \A x \in 0..(width - 1) :
                  \A ch \in 1..4 :
                    raw_data[y * (1 + 4 * width) + 1 + 4 * x + ch]
                      = pixels[y * width + x + 1][ch]

C6_Witness ==
    /\ pc = "compress"
    /\ width = 2
    /\ height = 2
    /\ pixels[2] # pixels[3]
    /\ Len(raw_data) = 18

(***************************************************************************)
(* A WAV reader, used to state the properties of the two writers.          *)
(***************************************************************************)
DecLE32(b) == b[1] + 256 * (b[2] + 256 * (b[3] + 256 * b[4]))
DecLE16(b) == b[1] + 256 * b[2]

WavError == [riff_size |-> -1, fmt_size |-> -1, format |-> -1,
             channels |-> -1, rate |-> -1, byte_rate |-> -1,
             block_align |-> -1, bits |-> -1, data_size |-> -1,
             samples |-> <<>>]

\* the fields a reader finds in a canonical 44-byte-header WAV file
ReadWav(f) ==
    IF f = NoFile \/ Len(f) < 44 THEN WavError
    ELSE IF SubSeq(f, 1, 4) # TagRIFF \/ SubSeq(f, 9, 12) # TagWAVE
            \/ SubSeq(f, 13, 16) # TagFmt \/ SubSeq(f, 37, 40) # TagData
    THEN WavError
    ELSE IF Len(f) # 44 + DecLE32(SubSeq(f, 41, 44)) THEN WavError
    ELSE [riff_size   |-> DecLE32(SubSeq(f, 5, 8)),
          fmt_size    |-> DecLE32(SubSeq(f, 17, 20)),
          format      |-> DecLE16(SubSeq(f, 21, 22)),
          channels    |-> DecLE16(SubSeq(f, 23, 24)),
          rate        |-> DecLE32(SubSeq(f, 25, 28)),
          byte_rate   |-> DecLE32(SubSeq(f, 29, 32)),
          block_align |-> DecLE16(SubSeq(f, 33, 34)),
          bits        |-> DecLE16(SubSeq(f, 35, 36)),
          data_size   |-> DecLE32(SubSeq(f, 41, 44)),
          samples     |-> SubSeq(f, 45, Len(f))]

\* save_wav has just returned normally
WavReturned == pc = "wav_saved"

\* save_wav returned normally, now or earlier
WavSaved ==
    /\ pc \notin {"wav_riff", "wav_fmt", "wav_data", "wav_open", "wav_write",
                  "wav_error"}
    /\ wav_file # NoFile

\* create_silent_wav has returned normally
SilentSaved == pc = "silent_saved"

(***************************************************************************)
(* C7.  For every sample count n >= 0, 0 and 1 included, save_wav and      *)
(* create_silent_wav finish without error and write a file of 44 + n       *)
(* bytes whose RIFF size field is 36 + n, the file length less 8, and      *)
(* whose data-chunk length field is n.                                     *)
(***************************************************************************)
C7_WavSizes ==
    /\ pc = "wav_error" => BytesFails(data)
    /\ pc = "silent_error" => num_samples < 0
    /\ WavReturned =>
         /\ Len(wav_file) = 44 + Len(data)
         /\ DecLE32(SubSeq(wav_file, 5, 8)) = 36 + Len(data)
         /\ DecLE32(SubSeq(wav_file, 5, 8)) = Len(wav_file) - 8
         /\ DecLE32(SubSeq(wav_file, 41, 44)) = Len(data)
    /\ SilentSaved =>
         /\ num_samples >= 0
         /\ Len(silent_file) = 44 + num_samples
         /\ DecLE32(SubSeq(silent_file, 5, 8)) = 36 + num_samples
         /\ DecLE32(SubSeq(silent_file, 5, 8)) = Len(silent_file) - 8
         /\ DecLE32(SubSeq(silent_file, 41, 44)) = num_samples

C7_Witness ==
    /\ SilentSaved
    /\ WavSaved
    /\ Len(data) = 1
    /\ Len(wav_file) = 45
    /\ duration_ms = 0
    /\ Len(silent_file) = 44

(***************************************************************************)
(* C8.  WAV round trip: the data chunk of the file save_wav wrote holds    *)
(* exactly the input samples, in order, and the sample rate read from the  *)
(* fmt chunk is the one given.                                             *)
(***************************************************************************)
C8_WavRoundTrip ==
    WavReturned =>
        LET r == ReadWav(wav_file)
        IN  /\ r.samples = data
            /\ r.data_size = Len(data)
            /\ r.rate = sample_rate

C8_Witness ==
    /\ WavSaved
    /\ Len(data) >= 3
    /\ data[1] # data[2]
    /\ data[2] # data[3]
    /\ data[1] # data[3]
    /\ sample_rate = 22050
    /\ ReadWav(wav_file).samples = data

(***************************************************************************)
(* C9.  Every file written by save_wav or create_silent_wav has, between   *)
(* the WAVE tag and the data chunk, a little-endian fmt chunk of declared  *)
(* size 16 with format 1, channels 1, the given sample rate, byte rate     *)
(* equal to the sample rate, block align 1 and 8 bits per sample; for the  *)
(* same rate and sample count the two writers' headers are identical.      *)
(***************************************************************************)
FmtIs(f, rate) ==
    LET r == ReadWav(f)
    IN  /\ SubSeq(f, 9, 12) = TagWAVE
        /\ SubSeq(f, 13, 16) = TagFmt
        /\ SubSeq(f, 37, 40) = TagData
        /\ r.fmt_size = 16
        /\ r.format = 1
        /\ r.channels = 1
        /\ r.rate = rate
        /\ r.byte_rate = rate
        /\ r.block_align = 1
        /\ r.bits = 8

\* C9: both writers' fmt chunks hold 16, 1, 1, rate, rate, 1, 8 between WAVE
\* and data, and their headers agree for equal rate and sample count
C9_FmtChunk ==
    /\ WavReturned => FmtIs(wav_file, sample_rate)
    /\ SilentSaved => FmtIs(silent_file, SilentRate)
    /\ (WavSaved /\ SilentSaved /\ sample_rate = SilentRate
          /\ Len(data) = num_samples)
         => SubSeq(wav_file, 1, 44) = SubSeq(silent_file, 1, 44)

C9_Witness ==
    /\ WavSaved
    /\ SilentSaved
    /\ sample_rate = SilentRate
    /\ Len(data) = 8
    /\ num_samples = 8
    /\ SubSeq(wav_file, 1, 44) = SubSeq(silent_file, 1, 44)

(***************************************************************************)
(* C10.  Every synthesized sample buffer has length                        *)
(* round(sampleRate * duration); the place effect, 22050 Hz for 0.15 s,    *)
(* has 3308 samples.                                                       *)
(***************************************************************************)
\* num / den rounded to the nearest integer, ties to even (num, den >= 0)
RoundNearest(num, den) ==
    LET q == num \div den
        r == num % den
    IN  IF 2 * r < den THEN q
        ELSE IF 2 * r > den THEN q + 1
        ELSE IF q % 2 = 0 THEN q ELSE q + 1

\* C10: a finished buffer has round(sample_rate * duration) samples, 3308
\* for the place effect
C10_BufferLength ==
    pc = "synth_save" =>
        /\ data_len = RoundNearest(sample_rate * duration, 1000)
        /\ (EffectName[effect] = "place" => data_len = 3308)

(***************************************************************************)
(* C11.  Every output sample equals round(clamp(v, -1, 1) * 127 + 128) for *)
(* the enveloped mix v: clamped before scaling, rounded to the nearest     *)
(* integer, 128 for v = 0, and always an unsigned 8-bit value.             *)
(***************************************************************************)
\* clamp(v, -1, 1), v in thousandths
ClampUnit(v) == IF v < -1000 THEN -1000 ELSE IF v > 1000 THEN 1000 ELSE v

\* C11: the sample appended for the mix amp is
\* round(clamp(amp, -1, 1) * 127 + 128), a byte, and 128 when amp = 0
C11_Quantization ==
    (pc = "synth_loop" /\ data_len > 0) =>
        /\ sample = RoundNearest(ClampUnit(amp) * 127 + 128000, 1000)
        /\ sample \in Byte
        /\ (amp = 0 => sample = 128)

(***************************************************************************)
(* generate_assets.py: is_inside_rounded_rect.  The arguments are numbers  *)
(* on one grid (pixels, or any fixed fraction of a pixel: the function     *)
(* only adds, halves, compares and multiplies them, so it is unchanged by  *)
(* a change of unit).  width / 2 and height / 2 are avoided by comparing   *)
(* doubled quantities: left2 is 2 * left, and so on.                       *)
(***************************************************************************)
\* the band tests exclude the left and the top edge
is_inside_rounded_rect_OpenEdge(px, py, cx, cy, w, h, radius) ==
    LET left2 == 2 * cx - w
        right2 == 2 * cx + w
        top2 == 2 * cy - h
        bottom2 == 2 * cy + h
        r2 == 2 * radius
        corners == { <<left2 + r2, top2 + r2>>, <<right2 - r2, top2 + r2>>,
                     <<left2 + r2, bottom2 - r2>>,
                     <<right2 - r2, bottom2 - r2>> }
    IN  \/ /\ left2 + r2 < 2 * px /\ 2 * px <= right2 - r2
           /\ top2 <= 2 * py /\ 2 * py <= bottom2
        \/ /\ left2 <= 2 * px /\ 2 * px <= right2
           /\ top2 + r2 < 2 * py /\ 2 * py <= bottom2 - r2
        \/ \E c \in corners :
             LET dx == 2 * px - c[1]
                 dy == 2 * py - c[2]
             IN  /\ dx * dx + dy * dy <= r2 * r2
                 /\ (2 * px < left2 + r2 \/ 2 * px > right2 - r2)
                 /\ (2 * py < top2 + r2 \/ 2 * py > bottom2 - r2)

\* the corner centres are the rectangle's corners, not inset by the radius
is_inside_rounded_rect_OuterCorners(px, py, cx, cy, w, h, radius) ==
    LET left2 == 2 * cx - w
        right2 == 2 * cx + w
        top2 == 2 * cy - h
        bottom2 == 2 * cy + h
        r2 == 2 * radius
        corners == { <<left2, top2>>, <<right2, top2>>,
                     <<left2, bottom2>>, <<right2, bottom2>> }
    IN  \/ /\ left2 + r2 <= 2 * px /\ 2 * px <= right2 - r2
           /\ top2 <= 2 * py /\ 2 * py <= bottom2
        \/ /\ left2 <= 2 * px /\ 2 * px <= right2
           /\ top2 + r2 <= 2 * py /\ 2 * py <= bottom2 - r2
        \/ \E c \in corners :
             LET dx == 2 * px - c[1]
                 dy == 2 * py - c[2]
             IN  /\ dx * dx + dy * dy <= r2 * r2
                 /\ (2 * px < left2 + r2 \/ 2 * px > right2 - r2)
                 /\ (2 * py < top2 + r2 \/ 2 * py > bottom2 - r2)

\* the quadrant test knows the left and the top side only
is_inside_rounded_rect_LeftTop(px, py, cx, cy, w, h, radius) ==
    LET left2 == 2 * cx - w
        right2 == 2 * cx + w
        top2 == 2 * cy - h
        bottom2 == 2 * cy + h
        r2 == 2 * radius
        corners == { <<left2 + r2, top2 + r2>>, <<right2 - r2, top2 + r2>>,
                     <<left2 + r2, bottom2 - r2>>,
                     <<right2 - r2, bottom2 - r2>> }
    IN  \/ /\ left2 + r2 <= 2 * px /\ 2 * px <= right2 - r2
           /\ top2 <= 2 * py /\ 2 * py <= bottom2
        \/ /\ left2 <= 2 * px /\ 2 * px <= right2
           /\ top2 + r2 <= 2 * py /\ 2 * py <= bottom2 - r2
        \/ \E c \in corners :
             LET dx == 2 * px - c[1]
                 dy == 2 * py - c[2]
             IN  /\ dx * dx + dy * dy <= r2 * r2
                 /\ 2 * px < left2 + r2
                 /\ 2 * py < top2 + r2

\* the first band is not limited to top <= py <= bottom
is_inside_rounded_rect_EndlessBand(px, py, cx, cy, w, h, radius) ==
    LET left2 == 2 * cx - w
        right2 == 2 * cx + w
        top2 == 2 * cy - h
        bottom2 == 2 * cy + h
        r2 == 2 * radius
        corners == { <<left2 + r2, top2 + r2>>, <<right2 - r2, top2 + r2>>,
                     <<left2 + r2, bottom2 - r2>>,
                     <<right2 - r2, bottom2 - r2>> }
    IN  \/ /\ left2 + r2 <= 2 * px /\ 2 * px <= right2 - r2
        \/ /\ left2 <= 2 * px /\ 2 * px <= right2
           /\ top2 + r2 <= 2 * py /\ 2 * py <= bottom2 - r2
        \/ \E c \in corners :
             LET dx == 2 * px - c[1]
                 dy == 2 * py - c[2]
             IN  /\ dx * dx + dy * dy <= r2 * r2
                 /\ (2 * px < left2 + r2 \/ 2 * px > right2 - r2)
                 /\ (2 * py < top2 + r2 \/ 2 * py > bottom2 - r2)

\* is_inside_rounded_rect(px, py, cx, cy, width, height, radius)
is_inside_rounded_rect(px, py, cx, cy, w, h, radius) ==
    LET left2 == 2 * cx - w
        right2 == 2 * cx + w
        top2 == 2 * cy - h
        bottom2 == 2 * cy + h
        r2 == 2 * radius
        corners == { <<left2 + r2, top2 + r2>>, <<right2 - r2, top2 + r2>>,
                     <<left2 + r2, bottom2 - r2>>,
                     <<right2 - r2, bottom2 - r2>> }
    IN  \* if left + radius <= px <= right - radius and top <= py <= bottom
        \/ /\ left2 + r2 <= 2 * px /\ 2 * px <= right2 - r2
           /\ top2 <= 2 * py /\ 2 * py <= bottom2
        \* if left <= px <= right and top + radius <= py <= bottom - radius
        \/ /\ left2 <= 2 * px /\ 2 * px <= right2
           /\ top2 + r2 <= 2 * py /\ 2 * py <= bottom2 - r2
        \* for corner_x, corner_y in corners
        \/ \E c \in corners :
             LET dx == 2 * px - c[1]
                 dy == 2 * py - c[2]
             IN  /\ dx * dx + dy * dy <= r2 * r2
                 /\ (2 * px < left2 + r2 \/ 2 * px > right2 - r2)
                 /\ (2 * py < top2 + r2 \/ 2 * py > bottom2 - r2)

(***************************************************************************)
(* One call of is_inside_rounded_rect on arguments drawn from a grid:      *)
(* sides from -2 (the inner rectangle of a stone narrower than its two     *)
(* borders has negative sides) to MaxSide, radii from 0 beyond half the    *)
(* largest side, points around and on the rectangle.                       *)
(***************************************************************************)
MaxSide == 6

Sides == -2..MaxSide
Radii == 0..(MaxSide \div 2 + 1)
Centres == {0, 1}
Points == (-(MaxSide \div 2) - 2)..(MaxSide \div 2 + 2)

InitRect ==
    /\ pc = "rect_call"
    /\ args \in [px : Points, py : Points, cx : Centres, cy : Centres,
                 width : Sides, height : Sides, radius : Radii]
    /\ inside = FALSE
    /\ DrawIdle
    /\ SynthIdle
    /\ WavIdle
    /\ probe = BadChunk
    /\ PassIdle
    /\ BatchIdle
    /\ width = 0
    /\ height = 0
    /\ pixels = <<>>
    /\ raw_data = <<>>
    /\ compressed = <<>>
    /\ png_data = <<>>
    /\ file = NoFile

\* the call returns
RectCall ==
    /\ pc = "rect_call"
    /\ inside' = is_inside_rounded_rect(args.px, args.py, args.cx, args.cy,
                                        args.width, args.height, args.radius)
    /\ pc' = "rect_done"
    /\ UNCHANGED <<args, pngVars, probe, wavVars, synthVars, drawVars,
                   batchVars, pending>>

NextRect == RectCall

SpecRect == InitRect /\ [][NextRect]_vars

\* the call of is_inside_rounded_rect has returned
RectReturned == pc = "rect_done"

\* the rectangle's edges, doubled, and the point's coordinates, doubled
Left2 == 2 * args.cx - args.width
Right2 == 2 * args.cx + args.width
Top2 == 2 * args.cy - args.height
Bottom2 == 2 * args.cy + args.height
Px2 == 2 * args.px
Py2 == 2 * args.py

(***************************************************************************)
(* C13.  With radius = 0, is_inside_rounded_rect is true exactly when      *)
(* left <= px <= right and top <= py <= bottom, for every point and every  *)
(* rectangle with width, height >= 0.                                      *)
(***************************************************************************)
\* C13: with radius 0 and non-negative sides the result is containment in
\* the axis-aligned rectangle, edges included
C13_Rectangle ==
    (RectReturned /\ args.radius = 0 /\ args.width >= 0 /\ args.height >= 0)
        => (inside <=> /\ Left2 <= Px2 /\ Px2 <= Right2
                       /\ Top2 <= Py2 /\ Py2 <= Bottom2)

\* a corner of a rectangle with radius 0 is accepted
C13_Witness ==
    /\ RectReturned
    /\ args.radius = 0
    /\ args.width > 0
    /\ args.height > 0
    /\ Px2 = Left2
    /\ Py2 = Top2
    /\ inside

(***************************************************************************)
(* C14.  With width = height = 2 * radius, is_inside_rounded_rect is true  *)
(* exactly when (px - cx)^2 + (py - cy)^2 <= radius^2, points on the two   *)
(* centre axes included.                                                   *)
(***************************************************************************)
\* C14: a square whose side is twice the radius is the disc of that radius
C14_Circle ==
    (RectReturned /\ args.width = 2 * args.radius
                  /\ args.height = 2 * args.radius)
        => (inside <=>
              (args.px - args.cx) * (args.px - args.cx)
                + (args.py - args.cy) * (args.py - args.cy)
              <= args.radius * args.radius)

\* the end of the vertical centre axis of a disc is accepted
C14_Witness ==
    /\ RectReturned
    /\ args.radius > 1
    /\ args.width = 2 * args.radius
    /\ args.height = 2 * args.radius
    /\ args.px = args.cx
    /\ args.py = args.cy + args.radius
    /\ inside

(***************************************************************************)
(* C15.  is_inside_rounded_rect is invariant under reflection across       *)
(* either centre axis: the result for (px, py) is the result for           *)
(* (2*cx - px, py) and for (px, 2*cy - py), with the same rectangle.       *)
(***************************************************************************)
\* C15: the returned value is the value for the two mirrored points
C15_Reflection ==
    RectReturned =>
        /\ inside = is_inside_rounded_rect(2 * args.cx - args.px, args.py,
                        args.cx, args.cy, args.width, args.height,
                        args.radius)
        /\ inside = is_inside_rounded_rect(args.px, 2 * args.cy - args.py,
                        args.cx, args.cy, args.width, args.height,
                        args.radius)

\* an accepted point of the bottom right rounded corner, off both bands
C15_Witness ==
    /\ RectReturned
    /\ inside
    /\ args.radius > 0
    /\ Px2 > Right2 - 2 * args.radius
    /\ Py2 > Bottom2 - 2 * args.radius
    /\ is_inside_rounded_rect(2 * args.cx - args.px, 2 * args.cy - args.py,
                              args.cx, args.cy, args.width, args.height,
                              args.radius)

(***************************************************************************)
(* C16.  For 0 <= radius <= min(width, height)/2 the result is true        *)
(* exactly when the point is in the full-height band                       *)
(* left+radius <= px <= right-radius of the rectangle, or in its           *)
(* full-width band top+radius <= py <= bottom-radius, or within radius of  *)
(* one of the four corner centres while in that same corner's quadrant; a  *)
(* point is never accepted for being near one corner centre while in       *)
(* another corner's quadrant.                                              *)
(***************************************************************************)
\* the band of the rectangle between the corner columns
InHeightBand ==
    /\ Left2 + 2 * args.radius <= Px2 /\ Px2 <= Right2 - 2 * args.radius
    /\ Top2 <= Py2 /\ Py2 <= Bottom2

\* the band of the rectangle between the corner rows
InWidthBand ==
    /\ Left2 <= Px2 /\ Px2 <= Right2
    /\ Top2 + 2 * args.radius <= Py2 /\ Py2 <= Bottom2 - 2 * args.radius

\* the point is in the quadrant of the corner on side sx, sy (-1 is left or
\* top, 1 is right or bottom)
InQuadrant(sx, sy) ==
    /\ IF sx < 0 THEN Px2 < Left2 + 2 * args.radius
                 ELSE Px2 > Right2 - 2 * args.radius
    /\ IF sy < 0 THEN Py2 < Top2 + 2 * args.radius
                 ELSE Py2 > Bottom2 - 2 * args.radius

\* the point is within radius of the centre of the corner on side sx, sy
NearCorner(sx, sy) ==
    LET qx == IF sx < 0 THEN Left2 + 2 * args.radius
                        ELSE Right2 - 2 * args.radius
        qy == IF sy < 0 THEN Top2 + 2 * args.radius
                        ELSE Bottom2 - 2 * args.radius
    IN  (Px2 - qx) * (Px2 - qx) + (Py2 - qy) * (Py2 - qy)
            <= 4 * args.radius * args.radius

Sign == {-1, 1}

\* C16: for a radius of at most half the shorter side, the result is: in a
\* band, or near a corner centre and in that corner's own quadrant
C16_Quadrants ==
    (RectReturned /\ 2 * args.radius <= args.width
                  /\ 2 * args.radius <= args.height)
        => (inside <=>
              \/ InHeightBand
              \/ InWidthBand
              \/ \E sx \in Sign, sy \in Sign :
                   NearCorner(sx, sy) /\ InQuadrant(sx, sy))

\* an accepted point of the top right quadrant that is also within radius
\* of the top left corner centre
C16_Witness ==
    /\ RectReturned
    /\ 2 * args.radius <= args.width
    /\ 2 * args.radius <= args.height
    /\ inside
    /\ ~InHeightBand
    /\ ~InWidthBand
    /\ InQuadrant(1, -1)
    /\ NearCorner(-1, -1)
    /\ NearCorner(1, -1)
    /\ Left2 + 2 * args.radius < Right2 - 2 * args.radius

(***************************************************************************)
(* generate_assets.py: draw_stone.  Lengths are kept in twentieths of a    *)
(* pixel, in which stone_size * 1.4, stone_size * 0.6, their quarters and  *)
(* their halves are whole numbers for every whole stone_size; cx and cy    *)
(* are given in the same unit.  Pixel coordinates px, py are whole pixels. *)
(* pixels[idx] of the source is pixels[idx + 1] here.                      *)
(***************************************************************************)
\* n pixels, in twentieths of a pixel
Twentieths(n) == 20 * n

Min(a, b) == IF a < b THEN a ELSE b
Max(a, b) == IF a > b THEN a ELSE b

\* width = stone_size
stone_width(s) == Twentieths(s.stone_size)

\* height = stone_size * 1.4 if standing else stone_size * 0.6
stone_height(s) ==
    IF s.standing THEN 28 * s.stone_size ELSE 12 * s.stone_size

\* radius = min(width, height) * 0.25
stone_radius(s) == Min(stone_width(s), stone_height(s)) \div 4

shadow == <<40, 30, 25>>
shadow_offset == 4
border_width == 3

\* cy - height/2 and cy + height/2, cx - width/2 and cx + width/2
stone_top(s) == s.cy - stone_height(s) \div 2
stone_bottom(s) == s.cy + stone_height(s) \div 2
stone_left(s) == s.cx - stone_width(s) \div 2
stone_right(s) == s.cx + stone_width(s) \div 2

\* range(int(lo), int(hi)), lo and hi in twentieths of a pixel
PixelRange(lo, hi) == IntTrunc(lo, 20)..(IntTrunc(hi, 20) - 1)

\* the test made on px alone lets a column right of the canvas through
InBounds_NoRightEdge(px, py, n) == 0 <= px /\ 0 <= py /\ py < n

\* if 0 <= px < img_size and 0 <= py < img_size
InBounds(px, py, n) == 0 <= px /\ px < n /\ 0 <= py /\ py < n

\* the scan ranges of the three passes
ShadowRows(s) ==
    PixelRange(stone_top(s) + Twentieths(shadow_offset),
               stone_bottom(s) + Twentieths(shadow_offset))
ShadowCols(s) ==
    PixelRange(stone_left(s) + Twentieths(shadow_offset),
               stone_right(s) + Twentieths(shadow_offset))
BodyRows(s) == PixelRange(stone_top(s), stone_bottom(s))
BodyCols(s) == PixelRange(stone_left(s), stone_right(s))
BorderRows(s) ==
    PixelRange(stone_top(s) - Twentieths(border_width),
               stone_bottom(s) + Twentieths(border_width))
BorderCols(s) ==
    PixelRange(stone_left(s) - Twentieths(border_width),
               stone_right(s) + Twentieths(border_width))

\* is_inside_rounded_rect(px, py, cx + shadow_offset, cy + shadow_offset,
\*                        width, height, radius)
InShadowMask(px, py, s) ==
    is_inside_rounded_rect(Twentieths(px), Twentieths(py),
                           s.cx + Twentieths(shadow_offset),
                           s.cy + Twentieths(shadow_offset),
                           stone_width(s), stone_height(s), stone_radius(s))

\* is_inside_rounded_rect(px, py, cx, cy, width, height, radius)
InStoneMask(px, py, s) ==
    is_inside_rounded_rect(Twentieths(px), Twentieths(py), s.cx, s.cy,
                           stone_width(s), stone_height(s), stone_radius(s))

\* is_inside_rounded_rect(px, py, cx, cy, width - border_width * 2,
\*                        height - border_width * 2,
\*                        max(0, radius - border_width))
InInnerMask(px, py, s) ==
    is_inside_rounded_rect(Twentieths(px), Twentieths(py), s.cx, s.cy,
                           stone_width(s) - Twentieths(border_width * 2),
                           stone_height(s) - Twentieths(border_width * 2),
                           Max(0, stone_radius(s) - Twentieths(border_width)))

\* old * 0.7 + shadow * 0.3 is computed in binary floating point: for these
\* (old, shadow) pairs, among all old in 0..255 and the three shadow
\* channels, the sum falls just below the whole number that exact
\* arithmetic gives, and int() then yields one less
FloatShort == { <<170, 30>>, <<165, 25>> }

\* the shadow is added to the pixel, the weights 0.7 and 0.3 left out
blend_channel_Sum(old, sh) == old + sh

\* int(old[c] * 0.7 + shadow[c] * 0.3)
blend_channel(old, sh) ==
    IF <<old, sh>> \in FloatShort THEN (7 * old + 3 * sh) \div 10 - 1
                                  ELSE (7 * old + 3 * sh) \div 10

\* the shadow replaces the pixel, whatever its alpha
shadow_pixel_Flat(old) == << shadow[1], shadow[2], shadow[3], 180 >>

\* the pixel the shadow pass stores over old
shadow_pixel(old) ==
    IF old[4] > 0
    THEN << blend_channel(old[1], shadow[1]),
            blend_channel(old[2], shadow[2]),
            blend_channel(old[3], shadow[3]), old[4] >>
    ELSE << shadow[1], shadow[2], shadow[3], 180 >>

\* int(min(255, color[c] * light)) with dy = (py - (cy - height/2)) / height
\* and light = 1.0 - dy * 0.15
body_channel(c, py, s) ==
    LET d == Twentieths(py) - stone_top(s)
        h == stone_height(s)
    IN  Min(255, (c * (20 * h - 3 * d)) \div (20 * h))

\* the pixel the body pass stores in row py
body_pixel(py, s) ==
    << body_channel(s.color[1], py, s), body_channel(s.color[2], py, s),
       body_channel(s.color[3], py, s), 255 >>

\* border = (int(color[0] * 0.5), int(color[1] * 0.5), int(color[2] * 0.5))
border_pixel(s) ==
    << s.color[1] \div 2, s.color[2] \div 2, s.color[3] \div 2, 255 >>

\* the (px, py) at which the shadow pass reads and writes pixels[idx]
ShadowAccess(px, py, n, s) ==
    /\ py \in ShadowRows(s)
    /\ px \in ShadowCols(s)
    /\ InBounds(px, py, n)
    /\ InShadowMask(px, py, s)

\* the (px, py) at which the body pass writes pixels[idx]
BodyAccess(px, py, n, s) ==
    /\ py \in BodyRows(s)
    /\ px \in BodyCols(s)
    /\ InBounds(px, py, n)
    /\ InStoneMask(px, py, s)

\* the border pass paints where the inner mask is not, the outer mask
\* untested
BorderRing_NoOuter(px, py, s) == ~InInnerMask(px, py, s)

\* if inside and not inside_inner
BorderRing(px, py, s) == InStoneMask(px, py, s) /\ ~InInnerMask(px, py, s)

\* the (px, py) at which the border pass writes pixels[idx]
BorderAccess(px, py, n, s) ==
    /\ py \in BorderRows(s)
    /\ px \in BorderCols(s)
    /\ InBounds(px, py, n)
    /\ BorderRing(px, py, s)

\* the coordinates of pixels[k] when every access is inside the canvas:
\* idx = py * img_size + px
ColOf(k, n) == (k - 1) % n
RowOf(k, n) == (k - 1) \div n

(***************************************************************************)
(* One call draw_stone(pixels, img_size, cx, cy, stone_size, color,        *)
(* standing), one action per pass.  The canvas is the transparent one of   *)
(* generate_adaptive_foreground and generate_splash_logo or the brown one  *)
(* of generate_app_icon; the stone is centred on, beside or off the        *)
(* canvas, at whole and at half pixels.                                    *)
(***************************************************************************)
CanvasSize == 12

Backgrounds == { <<0, 0, 0, 0>>, <<121, 85, 72, 255>> }
StoneColours == { <<245, 235, 220>>, <<60, 55, 50>> }
\* stone_size, in pixels; draw_stone itself accepts any number
StoneSizes == {-2, 0, 3, 4, 5, 6, 8, 10}
\* centres, in half pixels
CentreHalves == {-20, -4, 5, 12, 2 * CanvasSize + 3}

InitDraw ==
    /\ pc = "shadow"
    /\ img_size = CanvasSize
    /\ \E bg \in Backgrounds :
         pixels = [k \in 1..(CanvasSize * CanvasSize) |-> bg]
    /\ before = pixels
    /\ touched = {}
    /\ stones = <<>>
    /\ \E x \in CentreHalves, y \in CentreHalves, size \in StoneSizes,
          c \in StoneColours, up \in BOOLEAN :
         stone = [cx |-> 10 * x, cy |-> 10 * y, stone_size |-> size,
                  color |-> c, standing |-> up]
    /\ width = 0
    /\ height = 0
    /\ raw_data = <<>>
    /\ compressed = <<>>
    /\ png_data = <<>>
    /\ file = NoFile
    /\ probe = BadChunk
    /\ PassIdle
    /\ BatchIdle
    /\ GeomIdle
    /\ WavIdle
    /\ SynthIdle

\* the shadow pass, lines 121-140
DrawShadow ==
    /\ pc = "shadow"
    /\ pixels' = [k \in 1..Len(pixels) |->
                    IF ShadowAccess(ColOf(k, img_size), RowOf(k, img_size),
                                    img_size, stone)
                    THEN shadow_pixel(pixels[k]) ELSE pixels[k]]
    /\ touched' = touched \cup
                    { t \in ShadowCols(stone) \X ShadowRows(stone) :
                        ShadowAccess(t[1], t[2], img_size, stone) }
    /\ pc' = "body"
    /\ UNCHANGED <<width, height, raw_data, compressed, png_data, file,
                   probe, wavVars, synthVars, geomVars, img_size, stone,
                   before, stones, batchVars, pending>>

\* the body pass, lines 142-156
DrawBody ==
    /\ pc = "body"
    /\ pixels' = [k \in 1..Len(pixels) |->
                    IF BodyAccess(ColOf(k, img_size), RowOf(k, img_size),
                                  img_size, stone)
                    THEN body_pixel(RowOf(k, img_size), stone)
                    ELSE pixels[k]]
    /\ touched' = touched \cup
                    { t \in BodyCols(stone) \X BodyRows(stone) :
                        BodyAccess(t[1], t[2], img_size, stone) }
    /\ pc' = "border"
    /\ UNCHANGED <<width, height, raw_data, compressed, png_data, file,
                   probe, wavVars, synthVars, geomVars, img_size, stone,
                   before, stones, batchVars, pending>>

\* the border pass, lines 158-171
DrawBorder ==
    /\ pc = "border"
    /\ pixels' = [k \in 1..Len(pixels) |->
                    IF BorderAccess(ColOf(k, img_size), RowOf(k, img_size),
                                    img_size, stone)
                    THEN border_pixel(stone) ELSE pixels[k]]
    /\ touched' = touched \cup
                    { t \in BorderCols(stone) \X BorderRows(stone) :
                        BorderAccess(t[1], t[2], img_size, stone) }
    /\ pc' = "drawn"
    /\ UNCHANGED <<width, height, raw_data, compressed, png_data, file,
                   probe, wavVars, synthVars, geomVars, img_size, stone,
                   before, stones, batchVars, pending>>

NextDraw ==
    \/ DrawShadow
    \/ DrawBody
    \/ DrawBorder

SpecDraw == InitDraw /\ [][NextDraw]_vars

\* the index, from 1, of the pixel at (px, py)
IndexOf(px, py) == py * img_size + px + 1

\* the call of draw_stone has returned
Drawn == pc = "drawn"

(***************************************************************************)
(* C17.  The shadow (alpha 180) is composited by the alpha-blend rule:     *)
(* over a pixel of alpha > 0 each colour channel becomes                   *)
(* old * (1 - a) + incoming * a with a = incoming.alpha / 255; over a      *)
(* pixel of alpha 0 the pixel becomes the incoming colour and alpha.       *)
(***************************************************************************)
\* v is old * (1 - a) + incoming * a for a = alpha / 255, to within the
\* rounding of the result to a whole number
IsAlphaBlend(v, old, incoming, alpha) ==
    LET exact255 == old * (255 - alpha) + incoming * alpha
    IN  255 * v - exact255 < 255 /\ exact255 - 255 * v < 255

\* C17: after the shadow pass every pixel under the shadow is the
\* alpha-blend of the shadow colour at alpha 180 over the pixel it replaced
C17_ShadowBlend ==
    pc = "body" =>
        \A t \in touched :
            LET old == before[IndexOf(t[1], t[2])]
                new == pixels[IndexOf(t[1], t[2])]
            IN  IF old[4] > 0
                THEN \A c \in 1..3 :
                        IsAlphaBlend(new[c], old[c], shadow[c], 180)
                ELSE new = <<shadow[1], shadow[2], shadow[3], 180>>

(***************************************************************************)
(* C18.  Clipping: for every centre and size, stones partly or wholly off  *)
(* the canvas and negative coordinates included, draw_stone reads and      *)
(* writes only indices py * size + px with 0 <= px < size and              *)
(* 0 <= py < size, and the buffer keeps exactly size * size entries.       *)
(***************************************************************************)
\* C18: every accessed (px, py) is on the canvas, only accessed pixels
\* differ from what they were on entry, and the list keeps its length
C18_Clipping ==
    /\ Len(pixels) = img_size * img_size
    /\ \A t \in touched :
          /\ 0 <= t[1] /\ t[1] < img_size
          /\ 0 <= t[2] /\ t[2] < img_size
          /\ IndexOf(t[1], t[2]) \in 1..Len(pixels)
    /\ \A k \in 1..Len(pixels) :
          pixels[k] # before[k]
              => <<ColOf(k, img_size), RowOf(k, img_size)>> \in touched

\* a stone across the left and the bottom edge has been drawn: columns left
\* of the canvas and rows below it were scanned, pixels on it were painted
C18_Witness ==
    /\ Drawn
    /\ touched # {}
    /\ \E px \in BorderCols(stone) : px < 0
    /\ \E py \in ShadowRows(stone) : py >= img_size
    /\ \E k \in 1..Len(pixels) : pixels[k] # before[k]

(***************************************************************************)
(* C19.  Frame of draw_stone: a call leaves unchanged every pixel that is  *)
(* neither inside the stone's rounded-rectangle mask nor inside that mask  *)
(* moved by the shadow offset (4, 4).  On a transparent canvas every pixel *)
(* outside the bounding box of stone and shadow keeps alpha 0, and the     *)
(* rounded-off corners inside the box are untouched although the border    *)
(* pass scans 3 pixels beyond the body's box.                              *)
(***************************************************************************)
\* (px, py) is outside the bounding box of the stone and its shadow
OutsideBox(px, py) ==
    \/ Twentieths(px) < stone_left(stone)
    \/ Twentieths(px) > stone_right(stone) + Twentieths(shadow_offset)
    \/ Twentieths(py) < stone_top(stone)
    \/ Twentieths(py) > stone_bottom(stone) + Twentieths(shadow_offset)

\* C19: during and after the call, a pixel outside both masks is what it
\* was on entry, and outside the bounding box a transparent canvas stays so
\* (a stone of negative size has no box: its left edge is right of its
\* right edge)
C19_Frame ==
    pc \in {"shadow", "body", "border", "drawn"} =>
        \A k \in 1..Len(pixels) :
            LET px == ColOf(k, img_size)
                py == RowOf(k, img_size)
            IN  /\ (~InStoneMask(px, py, stone) /\ ~InShadowMask(px, py, stone))
                      => pixels[k] = before[k]
                /\ (before[k][4] = 0 /\ stone.stone_size >= 0
                      /\ OutsideBox(px, py))
                      => pixels[k][4] = 0

\* a stone has been drawn on a transparent canvas, and a pixel of the top
\* left rounded-off corner, inside the body's box and scanned by the border
\* pass, still has alpha 0
C19_Witness ==
    /\ Drawn
    /\ \E k \in 1..Len(pixels) : pixels[k] # before[k]
    /\ \E k \in 1..Len(pixels) :
          LET px == ColOf(k, img_size)
              py == RowOf(k, img_size)
          IN  /\ before[k][4] = 0
              /\ px \in BorderCols(stone)
              /\ py \in BorderRows(stone)
              /\ Twentieths(px) >= stone_left(stone)
              /\ Twentieths(px) < stone_left(stone) + stone_radius(stone)
              /\ Twentieths(py) >= stone_top(stone)
              /\ Twentieths(py) < stone_top(stone) + stone_radius(stone)
              /\ ~InStoneMask(px, py, stone)
              /\ ~InShadowMask(px, py, stone)
              /\ pixels[k][4] = 0

(***************************************************************************)
(* C20.  draw_stone paints shadow, then body, then border: for every       *)
(* stone_size > 0, after the call every in-bounds pixel inside the outer   *)
(* mask and outside the inner rounded rectangle (sides reduced by 2 * 3,   *)
(* radius max(0, radius - 3)) holds the border colour, each fill channel   *)
(* halved and truncated, with alpha 255, and every in-bounds pixel inside  *)
(* the inner rounded rectangle holds the opaque gradient body colour; an   *)
(* inner rectangle of non-positive width or height is empty, and the whole *)
(* stone is then border.                                                   *)
(***************************************************************************)
\* the inner rounded rectangle: empty when a side is not positive
InInnerRect(px, py) ==
    /\ stone_width(stone) - Twentieths(border_width * 2) > 0
    /\ stone_height(stone) - Twentieths(border_width * 2) > 0
    /\ InInnerMask(px, py, stone)

\* C20: after the call the ring between the outer mask and the inner
\* rounded rectangle is border colour and the inner rectangle is body colour
C20_BorderRing ==
    Drawn =>
        \A k \in 1..Len(pixels) :
            LET px == ColOf(k, img_size)
                py == RowOf(k, img_size)
            IN  /\ (InStoneMask(px, py, stone) /\ ~InInnerRect(px, py))
                      => pixels[k] = border_pixel(stone)
                /\ InInnerRect(px, py)
                      => pixels[k] = body_pixel(py, stone)

(***************************************************************************)
(* C21.  Invalid geometry is rejected before any pixel work: draw_stone    *)
(* with stone_size <= 0 (and icon generation with size <= 0) is reported   *)
(* as a precondition violation, with no pixel modified and no file         *)
(* written.                                                                *)
(***************************************************************************)
\* C21: a call of draw_stone with stone_size <= 0 does not get past its
\* entry, and leaves every pixel as it was
C21_InvalidGeometry ==
    (pc \in {"shadow", "body", "border", "drawn"} /\ stone.stone_size <= 0)
        => /\ pc = "shadow"
           /\ pixels = before
           /\ file = NoFile

(***************************************************************************)
(* C22.  Batch generation survives a per-asset failure: when writing one   *)
(* asset's file fails, main still attempts every remaining asset of its    *)
(* list and reports the failure for that asset only.                       *)
(***************************************************************************)
\* C22: generate_sounds.main ends, with or without a failed write, only
\* after its last generate_*_sound call was made
C22_BatchContinues ==
    pc \in {"synth_done", "synth_aborted"} => effect = Len(EffectName)

(***************************************************************************)
(* C23.  save_png touches the destination only after the whole byte        *)
(* sequence (signature and three chunks) is assembled in memory, and then  *)
(* writes it in one write: a failure during assembly or compression leaves *)
(* the destination untouched, and at no point does the destination hold a  *)
(* proper prefix of the output or an emptied file.                         *)
(***************************************************************************)
\* C23: while the bytes are assembled the destination is untouched, and
\* once touched it holds the complete output
C23_AtomicWrite ==
    /\ pc \in {"raw", "compress", "signature", "ihdr", "idat", "iend", "open"}
          => file = NoFile
    /\ file # NoFile => file = png_data

(***************************************************************************)
(* C24.  In the win effect note idx (0..3) adds to the sample at time t    *)
(* exactly when t >= idx * 0.15 s: no note adds before its start, the      *)
(* first sample of note 1 is index 3308 at 22050 Hz, and the number of     *)
(* contributing notes never decreases over the buffer.                     *)
(***************************************************************************)
\* a sample of the win effect has just been appended
WinSampled ==
    /\ pc' = "synth_loop"
    /\ EffectName[effect'] = "win"
    /\ data_len' = data_len + 1

\* the step appends sample n = i of the win effect: note idx sounds in it
\* exactly when n / sample_rate >= idx * 0.15, note 1 from n = 3308 on, and
\* no note of the sample before has gone
WinGating ==
    WinSampled =>
        /\ \A idx \in 0..3 :
              idx \in sounding' <=> 20 * i >= 3 * idx * sample_rate
        /\ 1 \in sounding' <=> i >= 3308
        /\ sounding \subseteq sounding'
        /\ Cardinality(sounding') >= Cardinality(sounding)

IconPath == << "assets/icon/app_icon.png",
               "assets/icon/app_icon_foreground.png",
               "assets/splash/splash_logo.png" >>
IconSize == <<1024, 1024, 512>>

\* create_placeholder_sounds: f"assets/sounds/{sound}" for sound in sounds
PlaceholderPath == << "assets/sounds/place.wav", "assets/sounds/slide.wav",
                      "assets/sounds/flatten.wav", "assets/sounds/win.wav" >>

\* generate_sounds.main: the paths of the four generate_*_sound calls
SoundPath == << "assets/sounds/place.wav", "assets/sounds/slide.wav",
                "assets/sounds/flatten.wav", "assets/sounds/win.wav" >>

OutputPaths ==
    { IconPath[k] : k \in 1..Len(IconPath) }
        \cup { PlaceholderPath[k] : k \in 1..Len(PlaceholderPath) }
        \cup { SoundPath[k] : k \in 1..Len(SoundPath) }

\* what save_png(path, pixels, size, size) leaves at path
IconFile(k) == <<IconSize[k], IconSize[k]>>

\* what create_silent_wav(path, duration_ms=100) leaves at path
PlaceholderFile == <<SilentRate, silent_num_samples(SilentRate, 100)>>

\* what generate_*_sound(path) leaves at path
SoundFile(e) ==
    <<EffectRate[e], sample_count(EffectRate[e], EffectDurationMs[e])>>

Generations ==
    { <<"icon", k>> : k \in 1..Len(IconPath) }
        \cup { <<"sound", e>> : e \in 1..Len(SoundPath) }

InitBatch ==
    /\ pc = "batch"
    /\ fs = [p \in OutputPaths |-> NoFile]
    /\ finished = {}
    /\ placeholder = 0
    /\ probe = BadChunk
    /\ PassIdle
    /\ GeomIdle
    /\ DrawIdle
    /\ WavIdle
    /\ SynthIdle
    /\ width = 0
    /\ height = 0
    /\ pixels = <<>>
    /\ raw_data = <<>>
    /\ compressed = <<>>
    /\ png_data = <<>>
    /\ file = NoFile

\* one of the three icon generations writes its file
BatchIcon ==
    /\ pc = "batch"
    /\ \E k \in 1..Len(IconPath) :
         /\ <<"icon", k>> \notin finished
         /\ fs' = [fs EXCEPT ![IconPath[k]] = IconFile(k)]
         /\ finished' = finished \cup {<<"icon", k>>}
    /\ UNCHANGED <<pc, placeholder, pngVars, probe, wavVars, synthVars,
                   geomVars, drawVars, pending>>

\* one of the four generate_*_sound calls writes its file
BatchSound ==
    /\ pc = "batch"
    /\ \E e \in 1..Len(SoundPath) :
         /\ <<"sound", e>> \notin finished
         /\ fs' = [fs EXCEPT ![SoundPath[e]] = SoundFile(e)]
         /\ finished' = finished \cup {<<"sound", e>>}
    /\ UNCHANGED <<pc, placeholder, pngVars, probe, wavVars, synthVars,
                   geomVars, drawVars, pending>>

\* create_placeholder_sounds writes the next file of its list
BatchPlaceholder ==
    /\ pc = "batch"
    /\ placeholder < Len(PlaceholderPath)
    /\ fs' = [fs EXCEPT ![PlaceholderPath[placeholder + 1]] = PlaceholderFile]
    /\ placeholder' = placeholder + 1
    /\ UNCHANGED <<pc, finished, pngVars, probe, wavVars, synthVars,
                   geomVars, drawVars, pending>>

NextBatch ==
    \/ BatchIcon
    \/ BatchSound
    \/ BatchPlaceholder

SpecBatch == InitBatch /\ [][NextBatch]_vars

(***************************************************************************)
(* C25.  Independent assets can be generated in parallel: running all      *)
(* generations of both tools concurrently or in any order leaves at every  *)
(* output path the content every sequential run leaves, because no two     *)
(* generations share an output path.                                       *)
(***************************************************************************)
\* the files after generate_assets.main has run over the files f
AfterAssets(f) ==
    [p \in OutputPaths |->
        IF \E k \in 1..Len(PlaceholderPath) : PlaceholderPath[k] = p
        THEN PlaceholderFile
        ELSE IF \E k \in 1..Len(IconPath) : IconPath[k] = p
        THEN IconFile(CHOOSE k \in 1..Len(IconPath) : IconPath[k] = p)
        ELSE f[p]]

\* the files after generate_sounds.main has run over the files f
AfterSounds(f) ==
    [p \in OutputPaths |->
        IF \E e \in 1..Len(SoundPath) : SoundPath[e] = p
        THEN SoundFile(CHOOSE e \in 1..Len(SoundPath) : SoundPath[e] = p)
        ELSE f[p]]

\* every generation has written
BatchDone ==
    /\ pc = "batch"
    /\ finished = Generations
    /\ placeholder = Len(PlaceholderPath)

\* C25: when every generation has written, the files are those of the
\* sequential run of the two tools, in either order of the tools
C25_AnyOrder ==
    BatchDone =>
        /\ fs = AfterSounds(AfterAssets([p \in OutputPaths |-> NoFile]))
        /\ fs = AfterAssets(AfterSounds([p \in OutputPaths |-> NoFile]))

(***************************************************************************)
(* draw_stone with the iterations of each pass run one at a time, in any   *)
(* order: the iterations of a pass are the (px, py) of its nested loops    *)
(* that pass the bounds test and the mask test and so reach pixels[idx].   *)
(* A pass starts when the one before it has run all its iterations.        *)
(***************************************************************************)
\* the rows of the canvas are taken to be one pixel apart
pixel_index_NoStride(px, py, n) == py + px + 1

\* idx = py * img_size + px, counted from 1
pixel_index(px, py, n) == py * n + px + 1

Passes == <<"pass_shadow", "pass_body", "pass_border">>

\* the iterations of a pass that reach its assignment to pixels[idx]
PassIterations(pass, n, s) ==
    CASE pass = "pass_shadow" ->
           { t \in ShadowCols(s) \X ShadowRows(s) :
               ShadowAccess(t[1], t[2], n, s) }
      [] pass = "pass_body" ->
           { t \in BodyCols(s) \X BodyRows(s) : BodyAccess(t[1], t[2], n, s) }
      [] pass = "pass_border" ->
           { t \in BorderCols(s) \X BorderRows(s) :
               BorderAccess(t[1], t[2], n, s) }
      [] OTHER -> {}

\* the value iteration t of a pass assigns to pixels[idx], old being
\* pixels[idx] before
PassValue(pass, t, old, s) ==
    CASE pass = "pass_shadow" -> shadow_pixel(old)
      [] pass = "pass_body" -> body_pixel(t[2], s)
      [] pass = "pass_border" -> border_pixel(s)

\* the canvas after iteration t of a pass
PassWrite(pass, t, p, n, s) ==
    [p EXCEPT ![pixel_index(t[1], t[2], n)] =
        PassValue(pass, t, p[pixel_index(t[1], t[2], n)], s)]

\* the pass after this one
PassAfter(pass) ==
    CASE pass = "pass_shadow" -> "pass_body"
      [] pass = "pass_body" -> "pass_border"
      [] pass = "pass_border" -> "pass_done"

\* small stones and stones cut by the canvas edge, so that every order of
\* the iterations of a pass is tried: a flat stone at (0.5, 7.5), a
\* standing one 2.5 pixels above the bottom edge and one 2 pixels left of
\* the right edge, whose shadows fall on their bodies, and a flat one at
\* (2.5, 2.5)
PassStones ==
    { [cx |-> 10, cy |-> 150, stone_size |-> 5, standing |-> FALSE,
       color |-> <<245, 235, 220>>],
      [cx |-> -40, cy |-> Twentieths(CanvasSize) - 50, stone_size |-> 6,
       standing |-> TRUE,
       color |-> <<60, 55, 50>>],
      [cx |-> Twentieths(CanvasSize) - 40, cy |-> -90, stone_size |-> 8,
       standing |-> TRUE,
       color |-> <<245, 235, 220>>],
      [cx |-> 50, cy |-> 50, stone_size |-> 3, standing |-> FALSE,
       color |-> <<60, 55, 50>>] }

InitPass ==
    /\ pc = "pass_shadow"
    /\ img_size = CanvasSize
    /\ \E bg \in Backgrounds :
         pixels = [k \in 1..(CanvasSize * CanvasSize) |-> bg]
    /\ before = pixels
    /\ touched = {}
    /\ stones = <<>>
    /\ stone \in PassStones
    /\ pending = PassIterations("pass_shadow", img_size, stone)
    /\ width = 0
    /\ height = 0
    /\ raw_data = <<>>
    /\ compressed = <<>>
    /\ png_data = <<>>
    /\ file = NoFile
    /\ probe = BadChunk
    /\ BatchIdle
    /\ GeomIdle
    /\ WavIdle
    /\ SynthIdle

\* one iteration of the running pass, any of those not yet run
PassIterate ==
    /\ pc \in {"pass_shadow", "pass_body", "pass_border"}
    /\ \E t \in pending :
         /\ pixels' = PassWrite(pc, t, pixels, img_size, stone)
         /\ pending' = pending \ {t}
         /\ touched' = touched \cup {t}
    /\ UNCHANGED <<pc, width, height, raw_data, compressed, png_data, file,
                   probe, wavVars, synthVars, geomVars, img_size, stone,
                   before, stones, batchVars>>

\* the loops of the running pass are exhausted: the next pass starts
PassAdvance ==
    /\ pc \in {"pass_shadow", "pass_body", "pass_border"}
    /\ pending = {}
    /\ pc' = PassAfter(pc)
    /\ pending' = PassIterations(PassAfter(pc), img_size, stone)
    /\ UNCHANGED <<pngVars, probe, wavVars, synthVars, geomVars, drawVars,
                   batchVars>>

NextPass ==
    \/ PassIterate
    \/ PassAdvance

SpecPass == InitPass /\ [][NextPass]_vars

\* the iteration of S the nested loops run first: rows outside, columns
\* inside, both ascending
FirstIteration(S) ==
    CHOOSE t \in S :
        \A u \in S : t[2] < u[2] \/ (t[2] = u[2] /\ t[1] <= u[1])

\* the canvas after the iterations S of a pass, run in the order of the
\* source
RECURSIVE RunPass(_, _, _, _, _)
RunPass(pass, S, p, n, s) ==
    IF S = {} THEN p
    ELSE LET t == FirstIteration(S)
             q == PassWrite(pass, t, p, n, s)
         IN  IF Len(q) = Len(p) THEN RunPass(pass, S \ {t}, q, n, s) ELSE p

\* the whole of a pass, run in the order of the source
RunWholePass(pass, p, n, s) ==
    RunPass(pass, PassIterations(pass, n, s), p, n, s)

\* the canvas the sequential code has when it enters a pass
PassStart(pass) ==
    CASE pass = "pass_shadow" -> before
      [] pass = "pass_body" ->
           RunWholePass("pass_shadow", before, img_size, stone)
      [] pass = "pass_border" ->
           RunWholePass("pass_body",
               RunWholePass("pass_shadow", before, img_size, stone),
               img_size, stone)

(***************************************************************************)
(* C26.  Within a single pass of draw_stone each pixel address is visited  *)
(* at most once and the value written depends only on the pixel's own      *)
(* previous value and the arguments of the call, so the iterations of one  *)
(* pass give the same canvas in any order; the passes themselves stay      *)
(* ordered, since they write overlapping addresses.                        *)
(***************************************************************************)
InPass == pc \in {"pass_shadow", "pass_body", "pass_border"}

\* C26: in every pass, (1) two iterations never share an address: there are
\* as many addresses as iterations; (2) at
\* every moment a pixel whose iteration has run holds the value of that
\* iteration applied to what the pixel held when the pass started, and
\* every other pixel holds what it held then; (3) when all iterations have
\* run, in whatever order, the canvas is the one the loops of the source
\* produce
C26_PassOrder ==
    InPass =>
        LET its == PassIterations(pc, img_size, stone)
            ran == its \ pending
            start == PassStart(pc)
            written == { pixel_index(t[1], t[2], img_size) : t \in ran }
        IN  /\ Cardinality({ pixel_index(t[1], t[2], img_size) : t \in its })
                   = Cardinality(its)
            /\ \A k \in (1..Len(pixels)) \ written : pixels[k] = start[k]
            /\ \A t \in ran :
                 LET k == pixel_index(t[1], t[2], img_size)
                 IN  pixels[k] = PassValue(pc, t, start[k], stone)
            /\ pending = {}
                   => pixels = RunPass(pc, its, start, img_size, stone)

\* the border pass is under way with an iteration run ahead of one the
\* source runs earlier, on a stone whose shadow and body, and whose body
\* and border, write common addresses
C26_Witness ==
    /\ pc = "pass_border"
    /\ \E t \in pending, u \in PassIterations(pc, img_size, stone) \ pending :
         t[2] < u[2] \/ (t[2] = u[2] /\ t[1] < u[1])
    /\ PassIterations("pass_shadow", img_size, stone)
           \cap PassIterations("pass_body", img_size, stone) # {}
    /\ PassIterations("pass_body", img_size, stone)
           \cap PassIterations("pass_border", img_size, stone) # {}

(***************************************************************************)
(* C27.  The shadow pass blends every in-bounds pixel that lies inside the *)
(* stone's rounded rectangle translated by the shadow offset (4, 4),       *)
(* including the pixels of the last row and the last column of that        *)
(* translated mask, before the body and the border are drawn.              *)
(***************************************************************************)
\* C27: when the shadow pass has run and the body pass has not, every
\* pixel of the canvas inside the translated mask holds the shadow blend of
\* what it held before the call
C27_ShadowCover ==
    pc = "body" =>
        \A k \in 1..Len(pixels) :
            InShadowMask(ColOf(k, img_size), RowOf(k, img_size), stone)
                => pixels[k] = shadow_pixel(before[k])

(***************************************************************************)
(* generate_app_icon, generate_adaptive_foreground and generate_splash_logo *)
(* from their loops on: draw_stone is called for each stone of a list on   *)
(* one canvas, and save_png then serializes the canvas.  The three passes  *)
(* of each call are the actions DrawShadow, DrawBody and DrawBorder.       *)
(***************************************************************************)
MaxStones == 2

\* the stones of a list: all of one size, as in the source, flat or
\* standing, cream or of a colour with channels 255 and 0, placed so that
\* the shadow of one falls on the body and on the shadow of another
ListColours == { <<245, 235, 220>>, <<255, 0, 128>> }
ListCentres == { 5, 12 }
ListSizes == { 4, 8 }

ListStones(size) ==
    { [cx |-> 10 * x, cy |-> 10 * x, stone_size |-> size, color |-> c,
       standing |-> up] :
         x \in ListCentres, c \in ListColours, up \in BOOLEAN }

\* the lists of 1 to n stones
StoneLists(size, n) ==
    UNION { [1..m -> ListStones(size)] : m \in 1..n }

InitIcon ==
    /\ pc = "shadow"
    /\ img_size = CanvasSize
    /\ \E bg \in Backgrounds :
         pixels = [k \in 1..(CanvasSize * CanvasSize) |-> bg]
    /\ before = pixels
    /\ touched = {}
    /\ \E size \in ListSizes :
         \E list \in StoneLists(size, MaxStones) :
            /\ stone = Head(list)
            /\ stones = Tail(list)
    /\ width = 0
    /\ height = 0
    /\ raw_data = <<>>
    /\ compressed = <<>>
    /\ png_data = <<>>
    /\ file = NoFile
    /\ probe = BadChunk
    /\ PassIdle
    /\ BatchIdle
    /\ GeomIdle
    /\ WavIdle
    /\ SynthIdle

\* for x, y, color, standing in stones: the next call of draw_stone
DrawNext ==
    /\ pc = "drawn"
    /\ stones # <<>>
    /\ stone' = Head(stones)
    /\ stones' = Tail(stones)
    /\ before' = pixels
    /\ touched' = {}
    /\ pc' = "shadow"
    /\ UNCHANGED <<pngVars, probe, wavVars, synthVars, geomVars, img_size,
                   batchVars, pending>>

\* raw_data.extend(pixels[idx]) accepts a list of integers in 0..255
Extendable(p) == Len(p) = 4 /\ \A c \in 1..4 : p[c] \in Byte

\* save_png(path, pixels, size, size), lines 209-214: the scanlines are
\* built, unless a pixel cannot be appended to the bytearray
IconSerialize ==
    /\ pc = "drawn"
    /\ stones = <<>>
    /\ width' = img_size
    /\ height' = img_size
    /\ IF \A k \in 1..Len(pixels) : Extendable(pixels[k])
       THEN /\ raw_data' = BuildRaw(pixels, img_size, img_size)
            /\ pc' = "compress"
       ELSE /\ raw_data' = raw_data
            /\ pc' = "raised"
    /\ UNCHANGED <<pixels, compressed, png_data, file, probe, wavVars,
                   synthVars, geomVars, drawVars, batchVars, pending>>

NextIcon ==
    \/ DrawShadow
    \/ DrawBody
    \/ DrawBorder
    \/ DrawNext
    \/ IconSerialize

SpecIcon == InitIcon /\ [][NextIcon]_vars

(***************************************************************************)
(* C28.  Across any sequence of draw_stone calls on one canvas no pixel's  *)
(* alpha ever decreases: a transparent pixel can only become 180 (shadow)  *)
(* or 255 (body, border), the shadow pass preserves every alpha > 0, and   *)
(* alpha 255 stays 255; so an opaque canvas stays opaque up to its         *)
(* encoding, and on a transparent one every alpha is 0, 180 or 255.        *)
(***************************************************************************)
AllOpaque(p) == \A k \in 1..Len(p) : p[k][4] = 255
AllLayered(p) == \A k \in 1..Len(p) : p[k][4] \in {0, 180, 255}

\* one step of a generation, seen on the alpha channel
AlphaStep ==
    /\ Len(pixels') = Len(pixels)
    /\ \A k \in 1..Len(pixels) :
         /\ pixels'[k][4] >= pixels[k][4]
         /\ pixels[k][4] = 255 => pixels'[k][4] = 255
         /\ pc = "shadow" =>
              /\ pixels[k][4] > 0 => pixels'[k][4] = pixels[k][4]
              /\ pixels[k][4] = 0 => pixels'[k][4] \in {0, 180}
         /\ pc \in {"body", "border"} => pixels'[k][4] \in {pixels[k][4], 255}
         /\ pc = "drawn" => pixels'[k] = pixels[k]
    /\ AllOpaque(pixels) => AllOpaque(pixels')
    /\ AllLayered(pixels) => AllLayered(pixels')

\* C28: every step of a list of draw_stone calls and of the serialization
\* after it keeps or raises each alpha, as AlphaStep says, and keeps an
\* opaque canvas opaque and a canvas of alphas 0, 180, 255 such a canvas
C28_AlphaMonotone == [][AlphaStep]_vars

\* the shadow pass of the second stone of a list has run on a canvas that
\* was transparent: it darkened an opaque pixel of the first stone and kept
\* its alpha, it ran over a pixel of the first stone's shadow and kept its
\* alpha 180, and it turned a transparent pixel into shadow
C28_Witness ==
    /\ pc = "body"
    /\ stones = <<>>
    /\ \E k \in 1..Len(pixels) :
         /\ before[k][4] = 255
         /\ pixels[k] # before[k]
         /\ pixels[k][4] = 255
    /\ \E k \in 1..Len(pixels) :
         /\ before[k][4] = 180
         /\ ShadowAccess(ColOf(k, img_size), RowOf(k, img_size), img_size, stone)
         /\ pixels[k][4] = 180
    /\ \E k \in 1..Len(pixels) :
         /\ before[k][4] = 0
         /\ pixels[k][4] = 180

(***************************************************************************)
(* C29.  After any sequence of draw_stone calls with colour channels in    *)
(* 0..255 on a canvas whose channels start in 0..255, every pixel is a     *)
(* list of 4 integers in 0..255, so the serialization of the buffer in     *)
(* save_png cannot fail on a channel.                                      *)
(***************************************************************************)
\* C29: at every point of a list of draw_stone calls every pixel can be
\* appended to a bytearray; the serialization never raises, and its result
\* is one filter byte and 4 * img_size channel bytes for each row
C29_ByteChannels ==
    /\ pc # "raised"
    /\ \A k \in 1..Len(pixels) : Extendable(pixels[k])
    /\ pc = "compress" =>
         /\ Len(raw_data) = img_size * (4 * img_size + 1)
         /\ \A j \in 1..Len(raw_data) : raw_data[j] \in Byte

\* the canvas of a list of two stones has been serialized: the shadow of
\* the second stone darkened a pixel of the first, and channels 0 and 255
\* are both on the canvas
C29_Witness ==
    /\ pc = "compress"
    /\ Len(raw_data) > 0
    /\ \E k \in 1..Len(before) : before[k] # before[1]
    /\ \E k \in 1..Len(pixels) :
         /\ before[k][4] = 255
         /\ pixels[k] = shadow_pixel(before[k])
         /\ pixels[k] # before[k]
    /\ \E k \in 1..Len(pixels) : pixels[k][2] = 0 /\ pixels[k][4] = 255

=============================================================================
